---- MODULE Spec2Model ----
(***************************************************************************)
(* openclaw-voice: the transcription gate (TranscriptionManager), the      *)
(* speaker segmenter (VoiceManager.join), and the music queue, stream      *)
(* cache and playback scheduler (MusicManager), as state machines.         *)
(*                                                                         *)
(* Text is a sequence of one-character strings, so trimming, substring     *)
(* search and the regular-expression replacements of the source are        *)
(* computed character by character.                                        *)
(***************************************************************************)
EXTENDS Integers, Sequences, FiniteSets, TLC

(***************************************************************************)
(* Bounds of the model.                                                    *)
(***************************************************************************)
\* updateBuffer calls explored, over all calls (guilds)
MaxAppends == 3

(***************************************************************************)
(* Strings of the source, as character sequences.                          *)
(***************************************************************************)
Echo == <<"e","c","h","o">>
Kimori == <<"k","i","m","o","r","i">>
\* 'hey ' and 'okay ' of normalized.startsWith('hey ' + w), startsWith('okay ' + w)
HeySp == <<"h","e","y"," ">>
OkaySp == <<"o","k","a","y"," ">>
\* 'hey' and 'okay' of new RegExp('hey\\s*' + w, 'gi'), new RegExp('okay\\s*' + w, 'gi')
Hey == <<"h","e","y">>
Okay == <<"o","k","a","y">>
\* the string literal of transcription.js line 187
StrayLiteral == <<" "," "," "," "," "," "," "," "," "," "," "," ","n","o","r","m","a","l","i","z","e","d",".","s","t","a","r","t","s","W","i","t","h","h","e","y"," ">>

TxtHeyEchoPlayJazz == <<"h","e","y"," ","e","c","h","o"," ","p","l","a","y"," ","j","a","z","z">>
TxtOkayEchoStop == <<"o","k","a","y"," ","e","c","h","o",","," ","s","t","o","p">>
TxtEchoWhatTime == <<"e","c","h","o"," ","w","h","a","t"," ","t","i","m","e"," ","i","s"," ","i","t">>
TxtPlaySomeJazz == <<"p","l","a","y"," ","s","o","m","e"," ","j","a","z","z">>
TxtHelloThere == <<"h","e","l","l","o"," ","t","h","e","r","e">>
TxtHeyEchoWhatsUp == <<"h","e","y"," ","e","c","h","o"," ","w","h","a","t","'","s"," ","u","p">>
TxtWhatsUp == <<"w","h","a","t","'","s"," ","u","p">>
TxtEchoGo == <<"e","c","h","o"," ","g","o">>
TxtHi == <<"h","i">>
TxtDot == <<".">>

(***************************************************************************)
(* JavaScript string operations used by processBuffer.                     *)
(***************************************************************************)
\* \s of the regular expressions and of String.prototype.trim
Space == {" ", "\t", "\n"}
\* the character class [,\.\s]
Punct == {",", "."} \cup Space

UpperCase == <<"A","B","C","D","E","F","G","H","I","J","K","L","M",
              "N","O","P","Q","R","S","T","U","V","W","X","Y","Z">>
LowerCase == <<"a","b","c","d","e","f","g","h","i","j","k","l","m",
              "n","o","p","q","r","s","t","u","v","w","x","y","z">>

LowerChar(c) ==
    IF \E k \in 1..26 : UpperCase[k] = c
    THEN LowerCase[CHOOSE k \in 1..26 : UpperCase[k] = c]
    ELSE c

ToLowerCase(s) == [i \in 1..Len(s) |-> LowerChar(s[i])]

RECURSIVE StripLeft(_, _)
StripLeft(s, cs) ==
    IF Len(s) > 0 /\ s[1] \in cs THEN StripLeft(Tail(s), cs) ELSE s

RECURSIVE StripRight(_, _)
StripRight(s, cs) ==
    IF Len(s) > 0 /\ s[Len(s)] \in cs
    THEN StripRight(SubSeq(s, 1, Len(s) - 1), cs)
    ELSE s

Trim(s) == StripRight(StripLeft(s, Space), Space)

StartsWithAt(s, i, p) ==
    /\ i + Len(p) - 1 <= Len(s)
    /\ SubSeq(s, i, i + Len(p) - 1) = p

StartsWith(s, p) == StartsWithAt(s, 1, p)

Includes(s, p) == \E i \in 1..(Len(s) + 1) : StartsWithAt(s, i, p)

\* JavaScript truthiness of a string: the empty string alone is falsy
Truthy(s) == Len(s) > 0

RECURSIVE SkipSpaces(_, _)
SkipSpaces(s, i) ==
    IF i <= Len(s) /\ s[i] \in Space THEN SkipSpaces(s, i + 1) ELSE i

\* Length of the match of the case-insensitive pattern  pre \s* w  (gap) or
\* pre w  (no gap) at position i of s; 0 when it does not match there.
MatchLen(s, i, pre, gap, w) ==
    LET l == ToLowerCase(s)
        j == IF gap THEN SkipSpaces(l, i + Len(pre)) ELSE i + Len(pre)
    IN  IF StartsWithAt(l, i, ToLowerCase(pre)) /\ StartsWithAt(l, j, ToLowerCase(w))
        THEN j + Len(w) - i
        ELSE 0

\* s.replace(new RegExp(pattern, 'gi'), ''): every match, left to right
RECURSIVE ReplaceAllFrom(_, _, _, _, _)
ReplaceAllFrom(s, i, pre, gap, w) ==
    IF i > Len(s) THEN <<>>
    ELSE LET n == MatchLen(s, i, pre, gap, w)
         IN  IF n > 0
             THEN ReplaceAllFrom(s, i + n, pre, gap, w)
             ELSE <<s[i]>> \o ReplaceAllFrom(s, i + 1, pre, gap, w)

ReplaceAll(s, pre, gap, w) == ReplaceAllFrom(s, 1, pre, gap, w)

(***************************************************************************)
(* The pure part of TranscriptionManager.processBuffer.                    *)
(***************************************************************************)
\* text.toLowerCase().replace(/^[,\.\s]+|[,\.\s]+$/g, '')
Normalized(text) == StripRight(StripLeft(ToLowerCase(text), Punct), Punct)

\* the callback of this.wakeWords.some(...)
WakeWordMatches(normalized, w) ==
    \/ Includes(normalized, w)
    \/ Truthy(StrayLiteral \o w)
    \/ StartsWith(normalized, OkaySp \o w)

HasWakeWord(normalized, words) ==
    \E k \in 1..Len(words) : WakeWordMatches(normalized, words[k])

\* The other revision of processBuffer:
\* text.toLowerCase().replace(/[,\.\s]+/g, ' ').trim()
RECURSIVE CollapsePunct(_)
CollapsePunct(s) ==
    IF s = <<>> THEN <<>>
    ELSE IF s[1] \in Punct THEN <<" ">> \o CollapsePunct(StripLeft(s, Punct))
    ELSE <<s[1]>> \o CollapsePunct(Tail(s))

NormalizedAll(text) == Trim(CollapsePunct(ToLowerCase(text)))

\* ... and its gate, whose three alternatives are all tests
HasWakeWordTested(normalized, words) ==
    \E k \in 1..Len(words) :
        \/ Includes(normalized, words[k])
        \/ StartsWith(normalized, HeySp \o words[k])
        \/ StartsWith(normalized, OkaySp \o words[k])

\* the body of this.wakeWords.forEach(w => ...)
StripWakeWord(s, w) ==
    ReplaceAll(ReplaceAll(ReplaceAll(s, <<>>, FALSE, w), Hey, TRUE, w), Okay, TRUE, w)

RECURSIVE StripWakeWords(_, _)
StripWakeWords(s, words) ==
    IF words = <<>> THEN s
    ELSE StripWakeWords(StripWakeWord(s, Head(words)), Tail(words))

CleanText(text, words) ==
    LET c == Trim(StripLeft(StripWakeWords(text, words), Punct))
    IN  IF Truthy(c) THEN c ELSE text

(***************************************************************************)
(* State.                                                                  *)
(***************************************************************************)
VARIABLES
    alwaysRespond,       \* config.ALWAYS_RESPOND
    wakeWords,           \* TranscriptionManager.wakeWords
    connections,         \* VoiceManager.connections: the guilds with a voice session
    transcriptionState,  \* TranscriptionManager.transcriptionState: guild -> state
    timers,              \* pending setTimeout callbacks of updateBuffer: <<guild, id>>
    procs,               \* processBuffer runs suspended at an await, per guild
    ttsCache,            \* tts.js ttsCache: the keys in insertion order
    appended,            \* history: updateBuffer calls made, per guild
    pendingTexts,        \* history: texts appended since the buffer was last emptied
    fresh,               \* history: the buffer holds text no processBuffer run has gated
    gated                \* history: the wake-word decisions of processBuffer, per guild

gateVars == <<alwaysRespond, wakeWords, connections, transcriptionState, timers,
              procs, ttsCache, appended, pendingTexts, fresh, gated>>

VARIABLES
    userStreams,         \* voice.js userStreams: user -> speaker state
    subscribed,          \* users whose opus stream has the 'data' handler attached
    emitted,             \* the onAudioReceived calls made: user, frames, isFinal
    started,             \* history: users for whom a speaking-start was delivered
    frameNo,             \* history: frames the transport has carried
    speechNo,            \* history: speech frames the transport has carried
    heard,               \* history: per user, speech frames, trailing silence, frames got,
                         \*   and the speech frames handled since the last final utterance
    owed,                \* history: per user, terminated runs of speech frames
    isListening,         \* the voice session's isListening flag
    voiceCalls,          \* processVoiceAudio runs suspended at an await
    transcribed,         \* history: the audio handed to transcribe(), in call order
    appendLog            \* history: the runs whose text updateBuffer appended

segVars == <<userStreams, subscribed, emitted, started, frameNo, speechNo, heard, owed,
             isListening, voiceCalls, transcribed, appendLog>>

VARIABLES
    now,                 \* Date.now(), in ticks
    streamCache,         \* MusicManager.streamCache: key -> streamUrl, expires
    queue,               \* MusicManager.queues, the entry of the call
    radioMode,           \* MusicManager.radioMode, the entry of the call (or none)
    player,              \* the call's AudioPlayer: status, resource, stop under way
    idleListeners,       \* the playNext listeners registered for AudioPlayerStatus.Idle
    errorListeners,      \* the listeners registered for 'error': the url each replays
    tasks,               \* play / playNext runs suspended at an await
    lastAdd,             \* history: the last addToQueue call
    stopped,             \* history: a stop was issued and no play request since
    startedSinceStop,    \* history: player.play() was called since that stop
    requests,            \* history: play requests, stop requests and player Idle events
    lastPut,             \* history: key -> the last setCachedStream on it
    lastGet,             \* history: the last getCachedStream call
    skipTimers,          \* pending setTimeout(playNext, 500) callbacks of /skip
    skipped,             \* history: what happened since the last skip
    recovery,            \* history: player errors, and replays of the current track
    spoken,              \* history: the music that speech playback found playing
    lastPlay,            \* history: the track that was playing when play was called
    refill               \* history: track ends, and the pre-fetch calls and the queue
                         \* entries the listeners of the last Idle event took (0, 1,
                         \* or 2 for more than one), what a refill on an empty
                         \* queue has got since (0 none yet, 1 nothing, 2 tracks),
                         \* and the states failed resolutions have led to

musicVars == <<now, streamCache, queue, radioMode, player, idleListeners,
               errorListeners, tasks, lastAdd, stopped, startedSinceStop, requests,
               lastPut, lastGet, skipTimers, skipped, recovery, lastPlay, refill, spoken>>

VARIABLES
    initializedSessions, \* transcription manager: session keys already sent the identity
    sent,                \* the openclaw agent processes spawned: guild, session, message
    wasReset,            \* history: resetSession was called since the guild's last dispatch
    joining,             \* join calls waiting at entersState, per guild
    players,             \* voice manager: guild -> the player of its registered session
    made,                \* history: players created for the guild's present session
    joinCalls            \* history: join calls made

callVars == <<initializedSessions, sent, wasReset, joining, players, made, joinCalls>>

vars == <<gateVars, segVars, musicVars, callVars>>

Guilds == {"g1", "g2"}

\* what the agent process can answer: a speakable reply, a reply made only of
\* characters that speak() strips, a reply of 500 characters or more, and
\* 'Error: ...' (non-zero exit, no output, spawn error or the 30 s timeout)
ReplyTexts == {"r1"}
Responses == ReplyTexts \cup {"Emoji", "Long", "Error"}

\* ttsCache.size > 100
TtsCacheCap == 100

(***************************************************************************)
(* VoiceManager.join / cleanup, as far as the session registry goes.       *)
(***************************************************************************)
Join(g) ==
    /\ UNCHANGED <<segVars, musicVars, callVars>>
    /\ g \notin connections
    /\ connections' = connections \cup {g}
    /\ UNCHANGED <<alwaysRespond, wakeWords, transcriptionState, timers, procs,
                   ttsCache, appended, pendingTexts, fresh, gated>>

Cleanup(g) ==
    /\ UNCHANGED <<segVars, musicVars, callVars>>
    /\ g \in connections
    /\ connections' = connections \ {g}
    /\ UNCHANGED <<alwaysRespond, wakeWords, transcriptionState, timers, procs,
                   ttsCache, appended, pendingTexts, fresh, gated>>

RECURSIVE SumOver(_, _)
SumOver(f, S) ==
    IF S = {} THEN 0
    ELSE LET x == CHOOSE y \in S : TRUE IN f[x] + SumOver(f, S \ {x})

TotalAppended == SumOver(appended, Guilds)

(***************************************************************************)
(* TranscriptionManager.updateBuffer                                       *)
(***************************************************************************)
NewState == [buffer |-> <<>>, processing |-> FALSE, silenceTimer |-> 0]

\* state.buffer ? state.buffer + ' ' + text : text
AppendText(buffer, text) ==
    IF Truthy(buffer) THEN buffer \o <<" ">> \o text ELSE text

\* updateBuffer without the clearTimeout: the old timer is left armed
ClearOldTimerNever(pending, g, handle) == pending

\* if (state.silenceTimer) clearTimeout(state.silenceTimer)
ClearOldTimer(pending, g, handle) ==
    IF handle # 0 THEN pending \ {<<g, handle>>} ELSE pending

\* the body of updateBuffer, for every caller
UpdateBufferCall(g, text) ==
    /\ TotalAppended < MaxAppends
    /\ LET old == IF g \in DOMAIN transcriptionState
                  THEN transcriptionState[g] ELSE NewState
           id == appended[g] + 1
       IN  /\ transcriptionState' =
                 [x \in DOMAIN transcriptionState \cup {g} |->
                     IF x = g
                     THEN [old EXCEPT !.buffer = AppendText(old.buffer, text),
                                      !.silenceTimer = id]
                     ELSE transcriptionState[x]]
           /\ timers' = ClearOldTimer(timers, g, old.silenceTimer) \cup {<<g, id>>}
    /\ appended' = [appended EXCEPT ![g] = @ + 1]
    /\ pendingTexts' = [pendingTexts EXCEPT ![g] = Append(@, text)]
    /\ fresh' = [fresh EXCEPT ![g] = TRUE]
    /\ UNCHANGED <<alwaysRespond, wakeWords, connections, procs, ttsCache, gated>>

UpdateBuffer(g, text) ==
    /\ UNCHANGED <<segVars, musicVars, callVars>>
    /\ UpdateBufferCall(g, text)

(***************************************************************************)
(* TranscriptionManager.processBuffer, up to its first await.              *)
(***************************************************************************)
\* the guard without its in-flight test
SkipsBufferUnguarded(s) == ~Truthy(s.buffer)

\* if (!state || !state.buffer || state.processing) return;   (state exists)
SkipsBuffer(s) == ~Truthy(s.buffer) \/ s.processing

\* hasWakeWord of the one revision and of the other
PassesGate(text, tested) ==
    IF tested THEN HasWakeWordTested(NormalizedAll(text), wakeWords)
    ELSE HasWakeWord(Normalized(text), wakeWords)

\* (tested: the revision whose gate tests the text)
ProcessBufferGated(g, tested) ==
    IF g \notin DOMAIN transcriptionState \/ SkipsBuffer(transcriptionState[g])
    THEN UNCHANGED <<transcriptionState, procs, pendingTexts, fresh, gated>>
    ELSE LET text == Trim(transcriptionState[g].buffer)
             clean == CleanText(text, wakeWords)
         IN  IF Len(text) < 2
             THEN /\ transcriptionState' =
                         [transcriptionState EXCEPT ![g].processing = FALSE]
                  /\ fresh' = [fresh EXCEPT ![g] = FALSE]
                  /\ UNCHANGED <<procs, pendingTexts, gated>>
             ELSE IF ~alwaysRespond /\ ~PassesGate(text, tested)
             THEN /\ transcriptionState' =
                         [transcriptionState EXCEPT ![g].processing = FALSE]
                  /\ fresh' = [fresh EXCEPT ![g] = FALSE]
                  /\ gated' = [gated EXCEPT ![g] =
                         Append(@, [src |-> text, pass |-> FALSE, msg |-> <<>>])]
                  /\ UNCHANGED <<procs, pendingTexts>>
             ELSE /\ transcriptionState' =
                         [transcriptionState EXCEPT ![g].processing = TRUE,
                                                    ![g].buffer = <<>>]
                  /\ procs' = [procs EXCEPT
                         ![g] = Append(@, [pc |-> "agent", reply |-> "none"])]
                  /\ pendingTexts' = [pendingTexts EXCEPT ![g] = <<>>]
                  /\ fresh' = [fresh EXCEPT ![g] = FALSE]
                  /\ gated' = [gated EXCEPT ![g] =
                         Append(@, [src |-> text, pass |-> TRUE, msg |-> clean])]

ProcessBuffer(g) == ProcessBufferGated(g, FALSE)

\* processBuffer of the other revision: the same but for the gate
ProcessBufferTested(g) == ProcessBufferGated(g, TRUE)

\* the setTimeout callback armed by updateBuffer, in that revision
TimerFireTested(g, id) ==
    /\ UNCHANGED <<segVars, musicVars, callVars>>
    /\ <<g, id>> \in timers
    /\ timers' = timers \ {<<g, id>>}
    /\ ProcessBufferTested(g)
    /\ UNCHANGED <<alwaysRespond, wakeWords, connections, ttsCache, appended>>

\* the setTimeout callback armed by updateBuffer
TimerFire(g, id) ==
    /\ UNCHANGED <<segVars, musicVars, callVars>>
    /\ <<g, id>> \in timers
    /\ timers' = timers \ {<<g, id>>}
    /\ ProcessBuffer(g)
    /\ UNCHANGED <<alwaysRespond, wakeWords, connections, ttsCache, appended>>

(***************************************************************************)
(* processBuffer after sendToOpenClaw has resolved, and speak().           *)
(***************************************************************************)
RemoveAt(seq, i) == SubSeq(seq, 1, i - 1) \o SubSeq(seq, i + 1, Len(seq))

\* response && !response.startsWith('Error:') && response.length < 500
Speakable(resp) == resp \notin {"Long", "Error"}

\* the emoji/markdown stripping of speak(): empty for a reply made of them only
Sanitized(resp) == IF resp = "Emoji" THEN "" ELSE resp

\* an eviction that takes the last key of the map, the one just set
CachePutDropsNewest(cache, key) ==
    LET put == IF \E k \in 1..Len(cache) : cache[k] = key
               THEN cache ELSE Append(cache, key)
    IN  IF Len(put) > TtsCacheCap THEN SubSeq(put, 1, Len(put) - 1) ELSE put

\* ttsCache.set(cacheKey, audioBuffer) and the eviction of the first key
CachePut(cache, key) ==
    LET put == IF \E k \in 1..Len(cache) : cache[k] = key
               THEN cache ELSE Append(cache, key)
    IN  IF Len(put) > TtsCacheCap THEN Tail(put) ELSE put

InCache(cache, key) == \E k \in 1..Len(cache) : cache[k] = key

\* state.processing = false (the last statement of processBuffer)
Finish(g, i) ==
    /\ procs' = [procs EXCEPT ![g] = RemoveAt(@, i)]
    /\ transcriptionState' = [transcriptionState EXCEPT ![g].processing = FALSE]

\* speak() rejects (fs.writeFileSync or player.play throws): processBuffer
\* ends without reaching its last statement
Throw(g, i) ==
    /\ procs' = [procs EXCEPT ![g] = RemoveAt(@, i)]
    /\ UNCHANGED transcriptionState

\* the child process of sendToOpenClaw closes, errors or is killed at 30 s
AgentDone(g, i, resp, playOk) ==
    /\ UNCHANGED <<segVars, musicVars, callVars>>
    /\ i \in 1..Len(procs[g])
    /\ procs[g][i].pc = "agent"
    /\ IF ~Speakable(resp) \/ g \notin connections \/ Sanitized(resp) = ""
       THEN Finish(g, i)
       ELSE IF InCache(ttsCache, <<g, Sanitized(resp)>>)
            THEN IF playOk THEN Finish(g, i) ELSE Throw(g, i)
            ELSE /\ procs' = [procs EXCEPT ![g][i] =
                                 [pc |-> "tts", reply |-> Sanitized(resp)]]
                 /\ UNCHANGED transcriptionState
    /\ UNCHANGED <<alwaysRespond, wakeWords, connections, timers, ttsCache,
                   appended, pendingTexts, fresh, gated>>

\* generateTTS resolves (audio bytes, or null when synthesis failed)
TtsDone(g, i, audio, playOk) ==
    /\ UNCHANGED <<segVars, musicVars, callVars>>
    /\ i \in 1..Len(procs[g])
    /\ procs[g][i].pc = "tts"
    /\ IF ~audio
       THEN Finish(g, i) /\ UNCHANGED ttsCache
       ELSE /\ ttsCache' = CachePut(ttsCache, <<g, procs[g][i].reply>>)
            /\ IF playOk THEN Finish(g, i) ELSE Throw(g, i)
    /\ UNCHANGED <<alwaysRespond, wakeWords, connections, timers,
                   appended, pendingTexts, fresh, gated>>

(***************************************************************************)
(* TranscriptionManager.sendToOpenClaw and resetSession, in the revision   *)
(* that sends the identity once per session.                               *)
(***************************************************************************)
DiscordDash == <<"d","i","s","c","o","r","d","-">>
\* the guild ids, as the decimal snowflakes they are
Snowflake(g) == IF g = "g1" THEN <<"4","2">> ELSE <<"4","2","7">>

\* a key that leaves the guild id out
SessionKeyShared(g) == DiscordDash

\* `discord-${guildId}`
SessionKey(g) == DiscordDash \o Snowflake(g)

\* this.identity.context, this.identity.personality, and the skills text with
\* the guild id and the text channel id (vc?.textChannelId || guildId)
IdentityContext == <<"C","t","x">>
Personality == <<"P","e","r">>
Skills(g) == <<"v","c"," ">> \o Snowflake(g) \o <<" ","c","h"," ">> \o Snowflake(g)
Newline == <<"\n">>
UserLabel == <<"U","s","e","r",":"," ">>

\* `${identityContext}\n\n${personality}\n${skills}\n\nUser: ${text}`
WithIdentity(g, text) ==
    IdentityContext \o Newline \o Newline \o Personality \o Newline \o Skills(g)
        \o Newline \o Newline \o UserLabel \o text

\* dispatches explored
MaxDispatches == 3

\* sendToOpenClaw(text, guildId), up to the spawn of the agent process
SendToOpenClaw(g, text) ==
    /\ UNCHANGED <<gateVars, segVars, musicVars>>
    /\ Len(sent) < MaxDispatches
    /\ LET sessionKey == SessionKey(g)
           fullMessage == IF sessionKey \notin initializedSessions
                          THEN WithIdentity(g, text) ELSE text
       IN  /\ initializedSessions' = initializedSessions \cup {sessionKey}
           /\ sent' = Append(sent, [guild |-> g, session |-> sessionKey,
                                    message |-> fullMessage, text |-> text])
    /\ wasReset' = [wasReset EXCEPT ![g] = FALSE]
    /\ UNCHANGED <<joining, players, made, joinCalls>>

\* a reset that forgets nothing
ForgetNothing(keys, g) == keys

\* this.initializedSessions.delete(sessionKey)
Forget(keys, g) == keys \ {SessionKey(g)}

\* POST /reset/:guildId: transcriptionManager.resetSession(guildId)
ResetSession(g) ==
    /\ UNCHANGED <<gateVars, segVars, musicVars>>
    /\ initializedSessions' = Forget(initializedSessions, g)
    /\ wasReset' = [wasReset EXCEPT ![g] = TRUE]
    /\ UNCHANGED <<sent, joining, players, made, joinCalls>>

(***************************************************************************)
(* VoiceManager.join with its await, and the /leave command.               *)
(***************************************************************************)
\* join calls explored
MaxJoinCalls == 4

\* join(guildId, ...) up to `await entersState(connection, Ready, 10000)`:
\* an existing session is returned, otherwise joinVoiceChannel is called
JoinBegin(g) ==
    /\ UNCHANGED <<gateVars, segVars, musicVars>>
    /\ joinCalls < MaxJoinCalls
    /\ joinCalls' = joinCalls + 1
    /\ joining' = IF g \in connections THEN joining
                  ELSE [joining EXCEPT ![g] = @ + 1]
    /\ UNCHANGED <<initializedSessions, sent, wasReset, players, made>>

\* join after the await (Ready, or the 10 s timeout caught and logged):
\* createAudioPlayer(), the handlers, this.connections.set(guildId, state)
JoinReady(g) ==
    /\ UNCHANGED <<segVars, musicVars>>
    /\ joining[g] > 0
    /\ joining' = [joining EXCEPT ![g] = @ - 1]
    /\ made' = [made EXCEPT ![g] = @ + 1]
    /\ players' = [players EXCEPT ![g] = made[g] + 1]
    /\ connections' = connections \cup {g}
    /\ UNCHANGED <<alwaysRespond, wakeWords, transcriptionState, timers, procs,
                   ttsCache, appended, pendingTexts, fresh, gated>>
    /\ UNCHANGED <<initializedSessions, sent, wasReset, joinCalls>>

\* /leave: voiceManager.cleanup(guildId) deletes the registry entry
Leave(g) ==
    /\ UNCHANGED <<segVars, musicVars>>
    /\ g \in connections
    /\ connections' = connections \ {g}
    /\ players' = [players EXCEPT ![g] = 0]
    /\ made' = [made EXCEPT ![g] = 0]
    /\ UNCHANGED <<alwaysRespond, wakeWords, transcriptionState, timers, procs,
                   ttsCache, appended, pendingTexts, fresh, gated>>
    /\ UNCHANGED <<initializedSessions, sent, wasReset, joining, joinCalls>>

InitCallState ==
    /\ initializedSessions = {}
    /\ sent = <<>>
    /\ wasReset = [g \in Guilds |-> FALSE]
    /\ joining = [g \in Guilds |-> 0]
    /\ players = [g \in Guilds |-> 0]
    /\ made = [g \in Guilds |-> 0]
    /\ joinCalls = 0

(***************************************************************************)
(* The speaker segmenter: the handlers VoiceManager.join installs on the   *)
(* receiver of one call.                                                   *)
(***************************************************************************)
Users == {"bot", "u1"}
\* connection.client.user.id
Self == "bot"
\* userState.silenceCount > 10
SilenceLimit == 10
\* frames explored, and speech frames among them
MaxFrames == 13
MaxSpeech == 2

MapPut(m, k, v) == [x \in DOMAIN m \cup {k} |-> IF x = k THEN v ELSE m[x]]
MapDel(m, k) == [x \in DOMAIN m \ {k} |-> m[x]]

CreateUserDecoder == [isSpeaking |-> FALSE, speechChunks |-> <<>>, silenceCount |-> 0]

\* one decoded frame: 20 ms of 48 kHz stereo 16-bit PCM (opusscript(48000, 2))
FrameBytes == 3840
\* audioBuffer.length < 2000
MinAudioBytes == 2000

\* processVoiceAudio up to its first await (the ffmpeg conversion): nothing
\* happens unless the session is listening and the audio is long enough
StartsVoiceCall(call) == isListening /\ Len(call.frames) * FrameBytes >= MinAudioBytes

\* the onAudioReceived callback that the join callers pass: it hands the audio
\* to processVoiceAudio and drops the isFinal argument
OnAudioReceived(calls, before, after) ==
    IF Len(after) > Len(before) /\ StartsVoiceCall(after[Len(after)])
    THEN Append(calls, [id |-> Len(after), user |-> after[Len(after)].user,
                        frames |-> after[Len(after)].frames, pc |-> "ffmpeg"])
    ELSE calls

\* the first 'start' listener (lines 145-157)
OnSpeakingStart(streams, u) ==
    IF u = Self THEN streams
    ELSE LET st == IF u \in DOMAIN streams THEN streams[u] ELSE CreateUserDecoder
         IN  MapPut(streams, u, [st EXCEPT !.isSpeaking = TRUE])

\* setupUserAudio, the second 'start' listener: does it subscribe?
SetupSubscribes(streams, u) == u \notin DOMAIN streams

\* receiver.speaking 'start': both listeners, in the order they were registered
SpeakingStart(u) ==
    /\ UNCHANGED <<gateVars, musicVars, callVars>>
    /\ LET s1 == OnSpeakingStart(userStreams, u)
       IN  IF SetupSubscribes(s1, u)
           THEN /\ userStreams' = MapPut(s1, u, CreateUserDecoder)
                /\ subscribed' = subscribed \cup {u}
           ELSE /\ userStreams' = s1
                /\ UNCHANGED subscribed
    /\ started' = started \cup {u}
    /\ UNCHANGED <<emitted, frameNo, speechNo, heard, owed,
                   isListening, voiceCalls, transcribed, appendLog>>

\* history: a run of speech frames of u has just been terminated (by an end
\* signal, or by the 10th consecutive non-speech frame after it)
Terminate(h, u) == [h EXCEPT ![u].speech = 0, ![u].silence = 0]

\* history: the speech frames that u's 'data' handler took since the last
\* final utterance of u
RunAfter(h, u, run) == [h EXCEPT ![u].run = run]

\* history: 1 once a frame of u has made the decoder throw in u's handler,
\* 2 once the handler has taken a speech frame after that
BadAfter(h, u, kind) ==
    IF u \notin subscribed THEN h
    ELSE IF kind = "bad" /\ h[u].bad = 0 THEN [h EXCEPT ![u].bad = 1]
    ELSE IF kind = "speech" /\ h[u].bad = 1 THEN [h EXCEPT ![u].bad = 2]
    ELSE h

\* a handler whose failure costs the speaker what it had accumulated
OnDecodeErrorResets(st) == [st EXCEPT !.speechChunks = <<>>, !.silenceCount = 0]

\* catch (e) { this.logger.error(...) }: the frame is dropped
OnDecodeError(st) == st

\* receiver.speaking 'end' (lines 159-178)
SpeakingEnd(u) ==
    /\ UNCHANGED <<gateVars, musicVars, callVars>>
    /\ u \in started
    /\ owed' = IF heard[u].speech > 0 THEN [owed EXCEPT ![u] = @ + 1] ELSE owed
    /\ heard' = RunAfter(IF heard[u].speech > 0 THEN Terminate(heard, u) ELSE heard, u,
                         IF u # Self /\ u \in DOMAIN userStreams
                            /\ Len(userStreams[u].speechChunks) > 0
                         THEN <<>> ELSE heard[u].run)
    /\ IF u # Self /\ u \in DOMAIN userStreams
       THEN /\ userStreams' = [userStreams EXCEPT ![u] =
                   [isSpeaking |-> FALSE, speechChunks |-> <<>>, silenceCount |-> 0]]
            /\ emitted' = IF Len(userStreams[u].speechChunks) > 0
                          THEN Append(emitted, [user |-> u,
                                                frames |-> userStreams[u].speechChunks,
                                                final |-> TRUE])
                          ELSE emitted
       ELSE UNCHANGED <<userStreams, emitted>>
    /\ voiceCalls' = OnAudioReceived(voiceCalls, emitted, emitted')
    /\ UNCHANGED <<subscribed, started, frameNo, speechNo,
                   isListening, transcribed, appendLog>>

\* the stream 'data' handler (lines 189-226) on a frame the VAD calls speech
OnSpeechFrame(st, id) ==
    [st EXCEPT !.speechChunks = Append(@, id), !.silenceCount = 0]

\* ... and on a frame the VAD calls non-speech
SilenceEnds(st) == st.silenceCount + 1 > SilenceLimit /\ Len(st.speechChunks) > 0

\* the handler without the reset after the final onAudioReceived
OnSilenceFrameKeeps(st) ==
    IF SilenceEnds(st) THEN st ELSE [st EXCEPT !.silenceCount = @ + 1]

OnSilenceFrame(st) ==
    IF SilenceEnds(st)
    THEN [st EXCEPT !.speechChunks = <<>>, !.silenceCount = 0]
    ELSE [st EXCEPT !.silenceCount = @ + 1]

\* the handler of the revision with one accumulator for the call
\* (state.audioChunks): every user's frames go to the same list
TrackShared(streams, u, st) ==
    [v \in DOMAIN streams |->
        IF v = u THEN st ELSE [streams[v] EXCEPT !.speechChunks = st.speechChunks]]

\* the 'data' handler of u's stream writes the state it closed over, which is
\* u's entry of userStreams (lines 184-185)
Track(streams, u, st) == [streams EXCEPT ![u] = st]

\* The transport carries one frame of user u: "speech" and "silence" are what
\* the VAD makes of a decodable frame of at least 320 bytes, "short" is a
\* shorter one, "bad" makes the decoder (or the VAD) throw.
Frame(u, kind) ==
    /\ UNCHANGED <<gateVars, musicVars, callVars>>
    /\ u \in started
    /\ frameNo < MaxFrames
    /\ kind = "speech" => speechNo < MaxSpeech
    /\ frameNo' = frameNo + 1
    /\ speechNo' = IF kind = "speech" THEN speechNo + 1 ELSE speechNo
    /\ owed' = IF kind = "silence" /\ heard[u].speech > 0 /\ heard[u].silence + 1 >= 10
                THEN [owed EXCEPT ![u] = @ + 1] ELSE owed
    /\ heard' = RunAfter(BadAfter(
          CASE kind = "speech" ->
                 [heard EXCEPT ![u].speech = @ + 1, ![u].silence = 0,
                               ![u].got = @ \cup {speechNo + 1}]
            [] kind = "silence" /\ heard[u].speech > 0 ->
                 IF heard[u].silence + 1 >= 10 THEN Terminate(heard, u)
                 ELSE [heard EXCEPT ![u].silence = @ + 1]
            [] OTHER -> heard, u, kind),
          u,
          IF u \notin subscribed THEN heard[u].run
          ELSE IF kind = "speech" THEN Append(heard[u].run, speechNo + 1)
          ELSE IF kind = "silence" /\ SilenceEnds(userStreams[u]) THEN <<>>
          ELSE heard[u].run)
    /\ IF u \in subscribed /\ kind \in {"speech", "silence"}
       THEN LET st == userStreams[u]
                id == speechNo + 1
            IN  IF kind = "speech"
                THEN /\ userStreams' = Track(userStreams, u, OnSpeechFrame(st, id))
                     /\ emitted' = IF Len(st.speechChunks) + 1 >= 2
                                   THEN Append(emitted, [user |-> u,
                                            frames |-> Append(st.speechChunks, id),
                                            final |-> FALSE])
                                   ELSE emitted
                ELSE /\ userStreams' = Track(userStreams, u, OnSilenceFrame(st))
                     /\ emitted' = IF SilenceEnds(st)
                                   THEN Append(emitted, [user |-> u,
                                            frames |-> st.speechChunks,
                                            final |-> TRUE])
                                   ELSE emitted
       ELSE IF u \in subscribed /\ kind = "bad"
       THEN /\ userStreams' = Track(userStreams, u, OnDecodeError(userStreams[u]))
            /\ UNCHANGED emitted
       ELSE UNCHANGED <<userStreams, emitted>>
    /\ voiceCalls' = OnAudioReceived(voiceCalls, emitted, emitted')
    /\ UNCHANGED <<subscribed, started, isListening, transcribed, appendLog>>

\* the stream 'end' and 'error' handlers (lines 228-235)
StreamEnd(u) ==
    /\ UNCHANGED <<gateVars, musicVars, callVars>>
    /\ u \in subscribed
    /\ subscribed' = subscribed \ {u}
    /\ userStreams' = MapDel(userStreams, u)
    /\ heard' = RunAfter(heard, u, <<>>)
    /\ UNCHANGED <<emitted, started, frameNo, speechNo, owed,
                   isListening, voiceCalls, transcribed, appendLog>>

InitSegState ==
    /\ userStreams = << >>
    /\ subscribed = {}
    /\ emitted = <<>>
    /\ started = {}
    /\ frameNo = 0
    /\ speechNo = 0
    /\ heard = [u \in Users |-> [speech |-> 0, silence |-> 0, got |-> {}, run |-> <<>>,
                                  bad |-> 0]]
    /\ owed = [u \in Users |-> 0]
    /\ isListening = TRUE
    /\ voiceCalls = <<>>
    /\ transcribed = <<>>
    /\ appendLog = <<>>

(***************************************************************************)
(* The music manager of one call: queue, stream cache, radio mode.         *)
(***************************************************************************)
\* the guild id of the call
Call == "g1"

(***************************************************************************)
(* TranscriptionManager.processVoiceAudio after its first await, for the   *)
(* call whose receiver the segmenter listens to.                           *)
(***************************************************************************)
\* what the recognizer makes of the audio: one letter per speech frame
FrameLetters == <<"a", "b", "c", "d">>
Said(frames) == [k \in 1..Len(frames) |-> FrameLetters[frames[k]]]

\* voiceManager.setListening (/listen, /stop_listen, /voice)
SetListening(v) ==
    /\ UNCHANGED <<gateVars, musicVars, callVars>>
    /\ isListening # v
    /\ isListening' = v
    /\ UNCHANGED <<userStreams, subscribed, emitted, started, frameNo, speechNo,
                   heard, owed, voiceCalls, transcribed, appendLog>>

\* utterances handed over in the runs that start from the callback itself
MaxUtterances == 3

\* the callback is called with the audio of the speaker's next finalized
\* utterance (one new speech frame): processVoiceAudio up to its first await
ProcessVoiceAudio(u) ==
    /\ UNCHANGED <<gateVars, musicVars, callVars>>
    /\ Len(emitted) < MaxUtterances
    /\ emitted' = Append(emitted, [user |-> u, frames |-> <<Len(emitted) + 1>>,
                                   final |-> TRUE])
    /\ voiceCalls' = OnAudioReceived(voiceCalls, emitted, emitted')
    /\ UNCHANGED <<userStreams, subscribed, started, frameNo, speechNo, heard, owed,
                   isListening, transcribed, appendLog>>

\* ffmpeg closes (or fails to spawn): the run goes on to transcribe(wavFile)
ConvertDone(i) ==
    /\ UNCHANGED <<gateVars, musicVars, callVars>>
    /\ i \in 1..Len(voiceCalls)
    /\ voiceCalls[i].pc = "ffmpeg"
    /\ voiceCalls' = [voiceCalls EXCEPT ![i].pc = "transcribe"]
    /\ transcribed' = Append(transcribed, voiceCalls[i])
    /\ UNCHANGED <<userStreams, subscribed, emitted, started, frameNo, speechNo,
                   heard, owed, isListening, appendLog>>

\* transcribe resolves, with the text or with '' when every recognizer failed
TranscribeDone(i, ok) ==
    /\ UNCHANGED <<musicVars, callVars>>
    /\ i \in 1..Len(voiceCalls)
    /\ voiceCalls[i].pc = "transcribe"
    /\ voiceCalls' = RemoveAt(voiceCalls, i)
    /\ IF ok
       THEN /\ UpdateBufferCall(Call, Said(voiceCalls[i].frames))
            /\ appendLog' = Append(appendLog, voiceCalls[i])
       ELSE UNCHANGED <<gateVars, appendLog>>
    /\ UNCHANGED <<userStreams, subscribed, emitted, started, frameNo, speechNo,
                   heard, owed, isListening, transcribed>>

\* config.MAX_QUEUE_SIZE and config.CACHE_TTL_MS (in ticks) of the explored runs
MAX_QUEUE_SIZE == 2
CACHE_TTL_MS == 1
\* the clock values explored
MaxClock == 2

Null == <<"null">>

\* a queue entry: q.push({ url, title, requestedBy, addedAt })
Song(url, title, requestedBy) == [url |-> url, title |-> title, requestedBy |-> requestedBy]

\* addToQueue without the capacity check
AddToQueueUnchecked(q, song) == [queue |-> Append(q, song), result |-> Len(q) + 1]

\* addToQueue: the queue after the call and the value returned
AddToQueue(q, song) ==
    IF Len(q) >= MAX_QUEUE_SIZE
    THEN [queue |-> q, result |-> -1]
    ELSE [queue |-> Append(q, song), result |-> Len(q) + 1]

\* history of one addToQueue call
\* what the requester is told after addToQueue returned result: play keeps it
\* in pos and returns, POST /play then answers status 'playing'; the radio
\* loops drop it
QueueAnswer(result, requestedBy) == IF requestedBy = "radio" THEN "none" ELSE "playing"

AddRecord(q, song) ==
    [called |-> TRUE, before |-> q, after |-> AddToQueue(q, song).queue,
     result |-> AddToQueue(q, song).result,
     answer |-> QueueAnswer(AddToQueue(q, song).result, song.requestedBy)]

NoAdd == [called |-> FALSE, before |-> <<>>, after |-> <<>>, result |-> 0,
          answer |-> "none"]

\* getCachedStream with a clock that stops at the entry's expiry
CacheHitInclusive(cache, key, t) == key \in DOMAIN cache /\ cache[key].expires >= t

\* getCachedStream: cached && cached.expires > Date.now()
CacheHit(cache, key, t) == key \in DOMAIN cache /\ cache[key].expires > t

GetCachedStream(cache, key, t) ==
    IF CacheHit(cache, key, t)
    THEN [value |-> cache[key].streamUrl, cache |-> cache]
    ELSE [value |-> Null, cache |-> MapDel(cache, key)]

SetCachedStream(cache, key, streamUrl, t) ==
    MapPut(cache, key, [streamUrl |-> streamUrl, expires |-> t + CACHE_TTL_MS])

\* a sweep that empties the cache
CleanupCacheAll(cache, t) == << >>

CleanupCache(cache, t) ==
    [k \in {x \in DOMAIN cache : ~(cache[x].expires < t)} |-> cache[k]]

NoPut == [present |-> FALSE, value |-> Null, at |-> 0, purpose |-> "none"]
NoGet == [called |-> FALSE, key |-> Null, value |-> Null, at |-> 0, put |-> NoPut,
          purpose |-> "none"]

\* history of a play call made while a track was playing and no other call
\* was under way
NoPlay == [active |-> FALSE, resource |-> Null]
PlayMark(m) ==
    [m EXCEPT !.lastPlay = IF m.player.status = "Playing" /\ m.tasks = <<>>
                           THEN [active |-> TRUE, resource |-> m.player.resource]
                           ELSE NoPlay]

\* the resource speak creates from its temporary file
TtsFile == <<"tts">>

\* history of speech played while music was playing and nothing was under
\* way: the track and the queue it found, and whether the speech has ended
NoSpeech == [active |-> FALSE, music |-> Null, queue |-> <<>>, over |-> FALSE]

\* history of a skip: the queue length it found, the entries dequeued and the
\* tracks started since
NoSkip == [active |-> FALSE, had |-> 0, taken |-> 0, started |-> 0]

\* the strings of the music manager
SearchPrefix == <<"s","e","a","r","c","h",":">>
Colon == <<":">>
HttpScheme == <<"h","t","t","p",":","/","/">>
HttpsScheme == <<"h","t","t","p","s",":","/","/">>
YoutubeCom == <<"y","o","u","t","u","b","e",".","c","o","m">>
YoutuBe == <<"y","o","u","t","u",".","b","e">>
WatchPrefix == <<"h","t","t","p","s",":","/","/","w","w","w",".","y","o","u","t","u","b","e",
                 ".","c","o","m","/","w","a","t","c","h","?","v","=">>
Radio == <<"r","a","d","i","o">>
Mix == <<"m","i","x">>
Quote == <<"\"">>

\* what the explored requests ask for: a song title, a radio station, a direct url
QJazz == <<"j","a","z","z">>
QLofiRadio == <<"L","o","f","i"," ","R","a","d","i","o">>
QStreamUrl == <<"h","t","t","p",":","/","/","a","/","s">>
QHttpsUrl == <<"h","t","t","p","s",":","/","/","e","/","a",".","m","p","3">>
\* what yt-dlp can print: video ids, and the stream url of a video
VideoA == <<"a">>
VideoB == <<"b">>
StreamUrlOf(url) == <<"c","d","n","/">> \o <<url[Len(url)]>>
Fail == <<"fail">>

\* `https://www.youtube.com/watch?v=${id}`
WatchUrl(id) == WatchPrefix \o id

\* query.match(/^https?:\/\//)
IsUrl(query) == StartsWith(query, HttpScheme) \/ StartsWith(query, HttpsScheme)

\* query.toLowerCase().includes('radio') || query.toLowerCase().includes('mix')
IsRadioQuery(query) ==
    Includes(ToLowerCase(query), Radio) \/ Includes(ToLowerCase(query), Mix)

\* url.includes('youtube.com') || url.includes('youtu.be')
IsYouTube(url) == Includes(url, YoutubeCom) \/ Includes(url, YoutuBe)

\* the count passed to searchYouTubeMultiple, and its decimal digits
RadioCount == 8
DigitChars == <<"0","1","2","3","4","5","6","7","8","9">>
RECURSIVE Digits(_)
Digits(n) ==
    IF n < 10 THEN <<DigitChars[n + 1]>>
    ELSE Digits(n \div 10) \o <<DigitChars[(n % 10) + 1]>>
\* queue.length < 3
LowWater == 3

\* `search:${query}` and `search:${query}:${count}`
SearchKey(query) == SearchPrefix \o query
MultiKey(query, count) == SearchPrefix \o query \o Colon \o Digits(count)

\* JSON.stringify of an array of strings that hold no quote or backslash
RECURSIVE JoinQuoted(_)
JoinQuoted(urls) ==
    IF urls = <<>> THEN <<>>
    ELSE Quote \o Head(urls) \o Quote
         \o (IF Len(urls) > 1 THEN <<",">> ELSE <<>>) \o JoinQuoted(Tail(urls))

JsonStringify(urls) == <<"[">> \o JoinQuoted(urls) \o <<"]">>

\* JSON.parse of such a text: the quoted strings, in order
QuoteAt(s) == {i \in 1..Len(s) : <<s[i]>> = Quote}
NthQuote(s, n) == CHOOSE i \in QuoteAt(s) : Cardinality({j \in QuoteAt(s) : j < i}) = n - 1

JsonParse(s) ==
    [k \in 1..(Cardinality(QuoteAt(s)) \div 2) |->
        SubSeq(s, NthQuote(s, 2 * k - 1) + 1, NthQuote(s, 2 * k) - 1)]

InitMusicOf(watch) ==
    /\ now = 0
    /\ streamCache = << >>
    /\ queue = <<>>
    /\ radioMode = << >>
    /\ player = [status |-> "Idle", resource |-> Null, stopping |-> FALSE]
    /\ idleListeners = 0
    /\ errorListeners = <<>>
    /\ tasks = <<>>
    /\ lastAdd = NoAdd
    /\ stopped = FALSE
    /\ startedSinceStop = FALSE
    /\ requests = 0
    /\ lastPut = << >>
    /\ lastGet = NoGet
    /\ skipTimers = 0
    /\ skipped = NoSkip
    /\ recovery = [errors |-> 0, replays |-> 0, reused |-> FALSE]
    /\ refill = [ends |-> 0, calls |-> 0, taken |-> 0, got |-> 0, seen |-> {},
                 loop |-> FALSE, watch |-> watch]
    /\ lastPlay = NoPlay
    /\ spoken = NoSpeech

(* The history of playNext's failed attempts is kept only where it is
   examined. *)
InitMusicState == InitMusicOf(FALSE)

\* The manager's state as one record, so that the synchronous part of a call
\* and the continuations that run before the next event compose as functions.
\* micro holds the continuations whose awaited promise is already settled.
Machine ==
    [cache |-> streamCache, queue |-> queue, radio |-> radioMode, player |-> player,
     idle |-> idleListeners, err |-> errorListeners, tasks |-> tasks, micro |-> <<>>,
     lastAdd |-> lastAdd, stopped |-> stopped, sss |-> startedSinceStop,
     lastPut |-> lastPut, lastGet |-> lastGet, skipT |-> skipTimers,
     skipped |-> skipped, recovery |-> recovery,
     refill |-> [refill EXCEPT !.seen = {}],
     lastPlay |-> lastPlay, spoken |-> spoken]

Commit(m) ==
    /\ streamCache' = m.cache
    /\ queue' = m.queue
    /\ radioMode' = m.radio
    /\ player' = m.player
    /\ idleListeners' = m.idle
    /\ errorListeners' = m.err
    /\ tasks' = m.tasks
    /\ lastAdd' = m.lastAdd
    /\ stopped' = m.stopped
    /\ startedSinceStop' = m.sss
    /\ lastPut' = m.lastPut
    /\ lastGet' = m.lastGet
    /\ skipTimers' = m.skipT
    /\ skipped' = m.skipped
    /\ recovery' = m.recovery
    /\ refill' = m.refill
    /\ lastPlay' = m.lastPlay
    /\ spoken' = m.spoken

\* a run of play or playNext suspended at an await
Task(kind, pc, query, url) == [kind |-> kind, pc |-> pc, query |-> query, url |-> url]

\* this.getCachedStream(key) and this.setCachedStream(key, value), with history
CachedValue(m, key) == GetCachedStream(m.cache, key, now).value

\* (purpose: which of the three functions makes the call)
GetM(m, key, purpose) ==
    [m EXCEPT !.cache = GetCachedStream(m.cache, key, now).cache,
              !.lastGet = [called |-> TRUE, key |-> key, value |-> CachedValue(m, key),
                           at |-> now,
                           put |-> IF key \in DOMAIN m.lastPut THEN m.lastPut[key]
                                   ELSE NoPut,
                           purpose |-> purpose]]

PutM(m, key, value, purpose) ==
    [m EXCEPT !.cache = SetCachedStream(m.cache, key, value, now),
              !.lastPut = MapPut(m.lastPut, key,
                                 [present |-> TRUE, value |-> value, at |-> now,
                                  purpose |-> purpose])]

\* this.addToQueue(guildId, url, title, requestedBy), with history
AddM(m, song) ==
    [m EXCEPT !.queue = AddToQueue(m.queue, song).queue,
              !.lastAdd = AddRecord(m.queue, song)]

\* for (const url of urls) this.addToQueue(guildId, url, title, requestedBy)
RECURSIVE AddAll(_, _, _, _)
AddAll(m, urls, title, requestedBy) ==
    IF urls = <<>> THEN m
    ELSE AddAll(AddM(m, Song(Head(urls), title, requestedBy)), Tail(urls),
                title, requestedBy)

\* an await: on a settled promise the continuation is queued, otherwise the
\* run waits for the yt-dlp process
Settled(m, task, value) == [m EXCEPT !.micro = Append(@, [task |-> task, value |-> value])]
Waiting(m, task) == [m EXCEPT !.tasks = Append(@, task)]

\* await this.searchYouTube(query)
AwaitSearch(m, task) ==
    LET key == SearchKey(task.query)
    IN  IF CachedValue(m, key) # Null
        THEN Settled(GetM(m, key, "search"), task, CachedValue(m, key))
        ELSE Waiting(GetM(m, key, "search"), task)

\* await this.searchYouTubeMultiple(query, 8)
AwaitMulti(m, task) ==
    LET key == MultiKey(task.query, RadioCount)
    IN  IF CachedValue(m, key) # Null
        THEN Settled(GetM(m, key, "multi"), task, JsonParse(CachedValue(m, key)))
        ELSE Waiting(GetM(m, key, "multi"), task)

\* getAudioStream without its "not YouTube, return directly" branch
AwaitStreamResolvesAll(m, task) ==
    IF CachedValue(m, task.url) # Null
    THEN Settled(GetM(m, task.url, "stream"), task, CachedValue(m, task.url))
    ELSE Waiting(GetM(m, task.url, "stream"), task)

\* await this.getAudioStream(url)
AwaitStream(m, task) ==
    IF ~IsYouTube(task.url) THEN Settled(m, task, task.url)
    ELSE IF CachedValue(m, task.url) # Null
         THEN Settled(GetM(m, task.url, "stream"), task, CachedValue(m, task.url))
         ELSE Waiting(GetM(m, task.url, "stream"), task)

\* the error listener's voiceState.player.play(freshResource)
Replay(m, freshStream) ==
    [m EXCEPT !.player = [status |-> "Playing", resource |-> freshStream,
                          stopping |-> FALSE],
              !.recovery.replays = @ + 1]

\* the listeners are registered and voiceState.player.play(resource) is called
StartTrack(m, task, streamUrl) ==
    [m EXCEPT !.recovery.replays = 0,
              !.recovery.reused = FALSE,
              !.err = Append(@, IF task.kind = "radio" THEN Null ELSE task.url),
              !.idle = @ + 1,
              !.player = [status |-> "Playing", resource |-> streamUrl,
                          stopping |-> FALSE],
              !.sss = @ \/ m.stopped,
              !.skipped = IF @.active THEN [@ EXCEPT !.started = @ + 1] ELSE @]

\* playNext of the revision without radio mode: if (!next) return
PlayNextNoRefill(m) ==
    IF m.queue = <<>> THEN m
    ELSE AwaitStream([m EXCEPT !.queue = Tail(@)],
                     Task("playNext", "stream", Null, Head(m.queue).url))

\* playNext up to its first await
PlayNext(m) ==
    IF m.queue = <<>>
    THEN IF Call \in DOMAIN m.radio
         THEN AwaitMulti(m, Task("refill", "multi", m.radio[Call].query, Null))
         ELSE m
    ELSE LET next == Head(m.queue)
             m1 == [m EXCEPT !.queue = Tail(@),
                             !.skipped = IF @.active THEN [@ EXCEPT !.taken = @ + 1]
                                         ELSE @]
         IN  IF Call \in DOMAIN m1.radio /\ Len(m1.queue) < LowWater
             THEN AwaitMulti([m1 EXCEPT !.refill.calls = IF @ < 2 THEN @ + 1 ELSE @],
                             Task("prefetch", "multi", m1.radio[Call].query, next.url))
             ELSE AwaitStream(m1, Task("playNext", "stream", Null, next.url))

\* play after the query is resolved to playUrl
PlayResolved(m, playUrl, title) ==
    IF m.player.status = "Playing"
    THEN AddM(m, Song(playUrl, title, "user"))
    ELSE AwaitStream(m, Task("play", "stream", Null, playUrl))

\* play(guildId, query, voiceState, message) up to its first await
Play(m, query) ==
    IF ~IsUrl(query)
    THEN IF IsRadioQuery(query)
         THEN AwaitMulti(m, Task("radio", "multi", query, Null))
         ELSE AwaitSearch(m, Task("play", "search", query, Null))
    ELSE PlayResolved(m, query, query)

\* the continuation of a run whose await has produced value
Resume(m, task, value) ==
    IF task.kind = "lookup" THEN m ELSE
    CASE task.pc = "search" ->
           IF value = Null THEN m ELSE PlayResolved(m, value, task.query)
      [] task.pc = "multi" /\ task.kind = "radio" ->
           IF Len(value) = 0 THEN m
           ELSE LET m1 == [m EXCEPT !.radio = MapPut(@, Call, [query |-> task.query,
                                                               lastFetch |-> now])]
                    m2 == AddAll(m1, value, task.query, "user")
                IN  AwaitStream(m2, Task("radio", "stream", Null, value[1]))
      [] task.pc = "multi" /\ task.kind = "refill" ->
           LET m1 == AddAll([m EXCEPT !.refill.got = IF Len(value) > 0 THEN 2 ELSE 1],
                            value, task.query, "radio")
           IN  IF Len(value) > 0 THEN PlayNext(m1) ELSE m1
      [] task.pc = "multi" /\ task.kind = "prefetch" ->
           AwaitStream(AddAll(m, value, task.query, "radio"),
                       Task("playNext", "stream", Null, task.url))
      [] task.pc = "stream" ->
           IF task.kind = "restart"
           THEN IF value = Fail THEN m ELSE Replay(m, value)
           ELSE IF value = Fail
                THEN IF task.kind = "playNext" THEN PlayNext(m) ELSE m
                ELSE StartTrack(m, task, value)

\* the continuations that are ready run, in order, before the next event
RECURSIVE Drain(_)
Drain(m) ==
    IF m.micro = <<>> THEN m
    ELSE Drain(Resume([m EXCEPT !.micro = Tail(@)], Head(m.micro).task,
                      Head(m.micro).value))

\* requests and player events explored
MaxRequests == 2

\* /play, /stream: musicManager.play(guildId, query, vc, interaction)
PlayRequest(query) ==
    /\ UNCHANGED <<gateVars, segVars, callVars>>
    /\ requests < MaxRequests
    /\ requests' = requests + 1
    /\ Commit(Drain(Play(PlayMark([Machine EXCEPT !.stopped = FALSE,
                                                  !.skipped = NoSkip,
                                                  !.spoken = NoSpeech]),
                          query)))
    /\ UNCHANGED now

\* the three helpers called on their own: the caller only takes the value
SearchYouTube(query) ==
    /\ UNCHANGED <<gateVars, segVars, callVars>>
    /\ requests < MaxRequests
    /\ requests' = requests + 1
    /\ Commit(Drain(AwaitSearch(Machine, Task("lookup", "search", query, Null))))
    /\ UNCHANGED now

SearchYouTubeMultiple(query) ==
    /\ UNCHANGED <<gateVars, segVars, callVars>>
    /\ requests < MaxRequests
    /\ requests' = requests + 1
    /\ Commit(Drain(AwaitMulti(Machine, Task("lookup", "multi", query, Null))))
    /\ UNCHANGED now

GetAudioStream(url) ==
    /\ UNCHANGED <<gateVars, segVars, callVars>>
    /\ requests < MaxRequests
    /\ requests' = requests + 1
    /\ Commit(Drain(AwaitStream(Machine, Task("lookup", "stream", Null, url))))
    /\ UNCHANGED now

Without(i) == [Machine EXCEPT !.tasks = RemoveAt(@, i)]

\* history: the states in which failed resolutions of playNext have left the
\* manager, with a run of playNext still under way, since the last event
\* other than a yt-dlp process ending; loop: one of them has come back
Snapshot(m) ==
    [cache |-> m.cache, queue |-> m.queue, radio |-> m.radio, player |-> m.player,
     idle |-> m.idle, err |-> m.err, tasks |-> m.tasks, skipT |-> m.skipT, at |-> now]

Keep(m) == [m EXCEPT !.refill.seen = refill.seen]

NoteFailure(m, task) ==
    IF ~m.refill.watch \/ task.kind # "playNext" \/ m.tasks = <<>> THEN m
    ELSE IF Snapshot(m) \in m.refill.seen THEN [m EXCEPT !.refill.loop = TRUE]
    ELSE [m EXCEPT !.refill.seen = @ \cup {Snapshot(m)}]

\* the yt-dlp process of searchYouTube closes, having printed id (or nothing)
SearchDone(i, id) ==
    /\ UNCHANGED <<gateVars, segVars, callVars>>
    /\ i \in 1..Len(tasks)
    /\ tasks[i].pc = "search"
    /\ LET t == tasks[i]
       IN  IF id = <<>>
           THEN Commit(Drain(Resume(Without(i), t, Null)))
           ELSE Commit(Drain(Resume(PutM(Without(i), SearchKey(t.query), WatchUrl(id),
                                         "search"),
                                    t, WatchUrl(id))))
    /\ UNCHANGED <<now, requests>>

WatchUrls(ids) == [k \in 1..Len(ids) |-> WatchUrl(ids[k])]

\* the yt-dlp process of searchYouTubeMultiple closes, having printed ids
MultiDone(i, ids) ==
    /\ UNCHANGED <<gateVars, segVars, callVars>>
    /\ i \in 1..Len(tasks)
    /\ tasks[i].pc = "multi"
    /\ LET t == tasks[i]
       IN  IF Len(ids) > 0
           THEN Commit(Drain(Resume(PutM(Keep(Without(i)), MultiKey(t.query, RadioCount),
                                         JsonStringify(WatchUrls(ids)), "multi"),
                                    t, WatchUrls(ids))))
           ELSE Commit(Drain(Resume(Keep(Without(i)), t, <<>>)))
    /\ UNCHANGED <<now, requests>>

\* the yt-dlp process of getAudioStream closes with a stream url (ok), or it
\* fails, or the 15 s timeout rejects
StreamDone(i, ok) ==
    /\ UNCHANGED <<gateVars, segVars, callVars>>
    /\ i \in 1..Len(tasks)
    /\ tasks[i].pc = "stream"
    /\ LET t == tasks[i]
       IN  IF ok
           THEN Commit(Drain(Resume(PutM(Without(i), t.url, StreamUrlOf(t.url), "stream"),
                                    t, StreamUrlOf(t.url))))
           ELSE Commit(NoteFailure(Drain(Resume(Keep(Without(i)), t, Fail)), t))
    /\ UNCHANGED <<now, requests>>

\* every listener registered for AudioPlayerStatus.Idle calls playNext
RECURSIVE FireIdle(_, _)
FireIdle(m, k) ==
    IF k = 0 THEN m
    ELSE FireIdle([PlayNext(m) EXCEPT
                      !.refill.taken = IF m.queue # <<>> /\ @ < 2 THEN @ + 1 ELSE @],
                  k - 1)

\* the player's state becomes Idle and the listeners run
PlayerGoesIdle(m) ==
    Drain(FireIdle([m EXCEPT !.player = [status |-> "Idle", resource |-> Null,
                                         stopping |-> FALSE],
                             !.refill.calls = 0, !.refill.taken = 0, !.refill.got = 0,
                             !.lastPlay = NoPlay,
                             !.spoken = IF @.active /\ m.player.resource = TtsFile
                                        THEN [@ EXCEPT !.over = TRUE]
                                        ELSE NoSpeech],
                   m.idle))

\* the player goes Idle: the track ended, or a stop has taken effect
PlayerIdle ==
    /\ UNCHANGED <<gateVars, segVars, callVars>>
    /\ player.status = "Playing"
    /\ player.stopping \/ requests < MaxRequests
    /\ requests' = IF player.stopping THEN requests ELSE requests + 1
    /\ Commit(PlayerGoesIdle(Machine))
    /\ UNCHANGED now

\* speak, once the audio is at hand: the temporary file is written and
\* vc.player.play(resource) is called on the call's player
SpeakPlays ==
    /\ UNCHANGED <<gateVars, segVars, callVars>>
    /\ requests < MaxRequests
    /\ requests' = requests + 1
    /\ Commit([Machine EXCEPT
                 !.spoken = IF player.status = "Playing" /\ player.resource # TtsFile
                               /\ tasks = <<>>
                            THEN [active |-> TRUE, music |-> player.resource,
                                  queue |-> queue, over |-> FALSE]
                            ELSE NoSpeech,
                 !.lastPlay = NoPlay,
                 !.player = [status |-> "Playing", resource |-> TtsFile,
                             stopping |-> FALSE]])
    /\ UNCHANGED now

\* track ends explored
MaxEnds == 2

\* the track being played ends
TrackEnd ==
    /\ UNCHANGED <<gateVars, segVars, callVars>>
    /\ player.status = "Playing"
    /\ ~player.stopping
    /\ refill.ends < MaxEnds
    /\ Commit(PlayerGoesIdle([Machine EXCEPT !.refill.ends = @ + 1]))
    /\ UNCHANGED <<now, requests>>

\* voiceState.player.stop(): a playing player is brought to Idle
PlayerStop(p) == IF p.status = "Playing" THEN [p EXCEPT !.stopping = TRUE] ELSE p

\* the /stop command
StopCommand ==
    /\ UNCHANGED <<gateVars, segVars, callVars>>
    /\ requests < MaxRequests
    /\ requests' = requests + 1
    /\ Commit([Machine EXCEPT !.player = PlayerStop(@), !.queue = <<>>,
                              !.stopped = TRUE, !.sss = FALSE])
    /\ UNCHANGED now

\* POST /stop/:guildId
ApiStop ==
    /\ UNCHANGED <<gateVars, segVars, callVars>>
    /\ requests < MaxRequests
    /\ requests' = requests + 1
    /\ Commit([Machine EXCEPT !.queue = <<>>, !.stopped = TRUE, !.sss = FALSE])
    /\ UNCHANGED now

\* the /clear command
ClearCommand ==
    /\ UNCHANGED <<gateVars, segVars, callVars>>
    /\ Commit([Machine EXCEPT !.queue = <<>>])
    /\ UNCHANGED <<now, requests>>

\* player errors explored
MaxErrors == 2

\* the error listener's await this.getAudioStream(url); history: the call is
\* answered from streamCache with the stream that has just failed
Restart(m, url) ==
    LET hit == IsYouTube(url) /\ CachedValue(m, url) # Null
                              /\ CachedValue(m, url) = m.player.resource
    IN  AwaitStream([m EXCEPT !.recovery.reused = @ \/ hit],
                    Task("restart", "stream", Null, url))

\* every listener registered for 'error' runs: those of play and playNext
\* re-resolve the url they were registered with, the radio one only logs
RECURSIVE FireError(_, _)
FireError(m, listeners) ==
    IF listeners = <<>> THEN m
    ELSE FireError(IF Head(listeners) = Null THEN m ELSE Restart(m, Head(listeners)),
                   Tail(listeners))

\* the player emits 'error' for the track it is playing
PlayerError ==
    /\ UNCHANGED <<gateVars, segVars, callVars>>
    /\ player.status = "Playing"
    /\ recovery.errors < MaxErrors
    /\ Commit(Drain(FireError([Machine EXCEPT !.recovery.errors = @ + 1],
                              errorListeners)))
    /\ UNCHANGED <<now, requests>>

\* history: a skip is made
SkipMark(m) ==
    [m EXCEPT !.skipped = [active |-> m.player.status = "Playing" /\ m.tasks = <<>>,
                           had |-> Len(m.queue), taken |-> 0, started |-> 0]]

\* the /skip command: player.stop(), and playNext half a second later
SkipCommand ==
    /\ UNCHANGED <<gateVars, segVars, callVars>>
    /\ requests < MaxRequests
    /\ requests' = requests + 1
    /\ Commit([SkipMark(Machine) EXCEPT !.player = PlayerStop(@), !.skipT = @ + 1])
    /\ UNCHANGED now

\* the setTimeout callback of /skip
SkipTimer ==
    /\ UNCHANGED <<gateVars, segVars, callVars>>
    /\ skipTimers > 0
    /\ Commit(Drain(PlayNext([Machine EXCEPT !.skipT = @ - 1])))
    /\ UNCHANGED <<now, requests>>

\* POST /skip/:guildId
ApiSkip ==
    /\ UNCHANGED <<gateVars, segVars, callVars>>
    /\ requests < MaxRequests
    /\ requests' = requests + 1
    /\ Commit(Drain(PlayNext(SkipMark(Machine))))
    /\ UNCHANGED now

\* time passes
Tick ==
    /\ UNCHANGED <<gateVars, segVars, callVars>>
    /\ now < MaxClock
    /\ now' = now + 1
    /\ UNCHANGED <<streamCache, queue, radioMode, player, idleListeners, errorListeners,
                   tasks, lastAdd, stopped, startedSinceStop, requests, lastPut, lastGet,
                   skipTimers, skipped, recovery, refill, lastPlay, spoken>>

\* the setInterval callback of the constructor
Sweep ==
    /\ UNCHANGED <<gateVars, segVars, callVars>>
    /\ Commit([Machine EXCEPT !.cache = CleanupCache(@, now)])
    /\ UNCHANGED <<now, requests>>

(***************************************************************************)
(* Specifications of the transcription gate.                               *)
(***************************************************************************)
InitGateState ==
    /\ connections = {}
    /\ transcriptionState = << >>
    /\ timers = {}
    /\ procs = [g \in Guilds |-> <<>>]
    /\ ttsCache = <<>>
    /\ appended = [g \in Guilds |-> 0]
    /\ pendingTexts = [g \in Guilds |-> <<>>]
    /\ fresh = [g \in Guilds |-> FALSE]
    /\ gated = [g \in Guilds |-> <<>>]

\* Two calls, short texts: the interleavings of appends, timers and dispatches.
GateTexts == {TxtEchoGo, TxtHi}

InitGate ==
    /\ alwaysRespond \in BOOLEAN
    /\ wakeWords = <<Echo>>
    /\ InitGateState
    /\ InitSegState
    /\ InitMusicState
    /\ InitCallState

NextGate ==
    \/ \E g \in Guilds : Join(g)
    \/ \E g \in Guilds : Cleanup(g)
    \/ \E g \in Guilds, t \in GateTexts : UpdateBuffer(g, t)
    \/ \E g \in Guilds, id \in 1..(MaxAppends + 1) : TimerFire(g, id)
    \/ \E g \in Guilds, i \in 1..2, r \in Responses, ok \in BOOLEAN :
          AgentDone(g, i, r, ok)
    \/ \E g \in Guilds, i \in 1..2, a \in BOOLEAN, ok \in BOOLEAN :
          TtsDone(g, i, a, ok)

SpecGate == InitGate /\ [][NextGate]_vars

\* processVoiceAudio's updateBuffer for a call that is in the registry
Heard(g, text) ==
    /\ g \in connections
    /\ UpdateBuffer(g, text)

\* Sessions that are joined, spoken to and destroyed, with the timers and
\* dispatches they leave behind.
NextDestroy ==
    \/ \E g \in Guilds : Join(g)
    \/ \E g \in Guilds : Cleanup(g)
    \/ \E g \in Guilds : Heard(g, TxtEchoGo)
    \/ \E g \in Guilds, id \in 1..(MaxAppends + 1) : TimerFire(g, id)
    \/ \E g \in Guilds, i \in 1..2, ok \in BOOLEAN : AgentDone(g, i, "r1", ok)
    \/ \E g \in Guilds, i \in 1..2, ok \in BOOLEAN : TtsDone(g, i, TRUE, ok)

SpecDestroy == InitGate /\ [][NextDestroy]_vars

\* The synthesized-speech cache near its cap: the cache after n replies with
\* the texts "1" .. "n" were spoken in call g1, then replies that are new or
\* were spoken before.
SpokenBefore(n) == [i \in 1..n |-> <<"g1", ToString(i)>>]
CapReplies == {"r1", "r2", ToString(1)}

InitCap ==
    /\ alwaysRespond = TRUE
    /\ wakeWords = <<Echo>>
    /\ connections = {}
    /\ transcriptionState = << >>
    /\ timers = {}
    /\ procs = [g \in Guilds |-> <<>>]
    /\ ttsCache \in {SpokenBefore(TtsCacheCap - 1), SpokenBefore(TtsCacheCap)}
    /\ appended = [g \in Guilds |-> 0]
    /\ pendingTexts = [g \in Guilds |-> <<>>]
    /\ fresh = [g \in Guilds |-> FALSE]
    /\ gated = [g \in Guilds |-> <<>>]
    /\ InitSegState
    /\ InitMusicState
    /\ InitCallState

NextCap ==
    \/ \E g \in Guilds : Join(g)
    \/ \E g \in Guilds : Heard(g, TxtHi)
    \/ \E g \in Guilds, id \in 1..(MaxAppends + 1) : TimerFire(g, id)
    \/ \E g \in Guilds, i \in 1..2, r \in CapReplies : AgentDone(g, i, r, TRUE)
    \/ \E g \in Guilds, i \in 1..2, a \in BOOLEAN : TtsDone(g, i, a, TRUE)

SpecCap == InitCap /\ [][NextCap]_vars

\* One call, the utterance texts of the wake-word scenarios.
WakeTexts == {TxtHeyEchoPlayJazz, TxtOkayEchoStop, TxtEchoWhatTime, TxtPlaySomeJazz,
              TxtHelloThere, TxtHeyEchoWhatsUp, TxtDot}
\* updateBuffer calls explored in the wake-word scenarios
MaxWakeAppends == 1

InitWake ==
    /\ alwaysRespond \in BOOLEAN
    /\ wakeWords \in {<<Echo>>, <<Echo, Kimori>>}
    /\ InitGateState
    /\ InitSegState
    /\ InitMusicState
    /\ InitCallState

NextWake ==
    \/ Join("g1")
    \/ Cleanup("g1")
    \/ \E t \in WakeTexts : TotalAppended < MaxWakeAppends /\ UpdateBuffer("g1", t)
    \/ \E id \in 1..(MaxWakeAppends + 1) : TimerFire("g1", id)
    \/ \E r \in Responses, ok \in BOOLEAN : AgentDone("g1", 1, r, ok)
    \/ \E a \in BOOLEAN, ok \in BOOLEAN : TtsDone("g1", 1, a, ok)

SpecWake == InitWake /\ [][NextWake]_vars

(***************************************************************************)
(* Specification of the segmenter: one call, the bot and one speaker.      *)
(***************************************************************************)
FrameKinds == {"speech", "silence", "short", "bad"}

InitSeg ==
    /\ alwaysRespond = FALSE
    /\ wakeWords = <<Echo>>
    /\ InitGateState
    /\ InitSegState
    /\ InitMusicState
    /\ InitCallState

NextSeg ==
    \/ \E u \in Users : SpeakingStart(u)
    \/ \E u \in Users : SpeakingEnd(u)
    \/ \E u \in Users, k \in FrameKinds : Frame(u, k)
    \/ \E u \in Users : StreamEnd(u)

SpecSeg == InitSeg /\ [][NextSeg]_vars

(***************************************************************************)
(* Specification of the recognizer path: the segmenter of one speaker and  *)
(* the processVoiceAudio runs it starts.                                   *)
(***************************************************************************)
NextVoice ==
    \/ \E u \in Users : SpeakingStart(u)
    \/ \E u \in Users : SpeakingEnd(u)
    \/ \E u \in Users, k \in {"speech", "silence"} : Frame(u, k)
    \/ \E v \in BOOLEAN : SetListening(v)
    \/ \E i \in 1..2 : ConvertDone(i)
    \/ \E i \in 1..2, ok \in BOOLEAN : TranscribeDone(i, ok)

SpecVoice == InitSeg /\ [][NextVoice]_vars

\* Finalized utterances of the speakers of one call, handed to the callback
\* one after the other while earlier runs are still converting or recognizing.
NextOrder ==
    \/ \E u \in Users : ProcessVoiceAudio(u)
    \/ \E i \in 1..MaxUtterances : ConvertDone(i)
    \/ \E i \in 1..MaxUtterances, ok \in BOOLEAN : TranscribeDone(i, ok)

SpecOrder == InitSeg /\ [][NextOrder]_vars

\* The same runs on a call that answers every text, with /listen and
\* /stop_listen given at any moment and the silence timer of the buffer.
InitMute ==
    /\ alwaysRespond = TRUE
    /\ wakeWords = <<Echo>>
    /\ InitGateState
    /\ InitSegState
    /\ InitMusicState
    /\ InitCallState

NextMute ==
    \/ \E u \in Users : ProcessVoiceAudio(u)
    \/ \E v \in BOOLEAN : SetListening(v)
    \/ \E i \in 1..MaxUtterances : ConvertDone(i)
    \/ \E i \in 1..MaxUtterances, ok \in BOOLEAN : TranscribeDone(i, ok)
    \/ \E id \in 1..(MaxAppends + 1) : TimerFire(Call, id)
    \/ \E i \in 1..2 : AgentDone(Call, i, "r1", TRUE)

SpecMute == InitMute /\ [][NextMute]_vars

(***************************************************************************)
(* Specification of the music manager: one call.                           *)
(***************************************************************************)
Queries == {QJazz, QLofiRadio, QStreamUrl}
IdBatches == {<<>>, <<VideoA, VideoB>>}

InitMusic ==
    /\ alwaysRespond = FALSE
    /\ wakeWords = <<Echo>>
    /\ InitGateState
    /\ InitSegState
    /\ InitMusicState
    /\ InitCallState

NextMusic ==
    \/ \E q \in Queries : PlayRequest(q)
    \/ \E i \in 1..2, id \in {<<>>, VideoA} : SearchDone(i, id)
    \/ \E i \in 1..2, ids \in IdBatches : MultiDone(i, ids)
    \/ \E i \in 1..2, ok \in BOOLEAN : StreamDone(i, ok)
    \/ PlayerIdle
    \/ StopCommand
    \/ ApiStop
    \/ ClearCommand
    \/ Tick
    \/ Sweep

SpecMusic == InitMusic /\ [][NextMusic]_vars

(***************************************************************************)
(* Specification of the cache keys: the three helpers of the music manager *)
(* called with queries and urls of every shape.                            *)
(***************************************************************************)
\* a query that ends like the key of a multi-result search
MixColon8 == Mix \o Colon \o Digits(RadioCount)
KeyQueries == {Mix, MixColon8, YoutuBe}
KeyUrls == {SearchKey(YoutuBe), WatchUrl(VideoA)}

NextKeys ==
    \/ \E q \in KeyQueries : SearchYouTube(q)
    \/ \E q \in KeyQueries : SearchYouTubeMultiple(q)
    \/ \E u \in KeyUrls : GetAudioStream(u)
    \/ \E i \in 1..2, id \in {<<>>, VideoA} : SearchDone(i, id)
    \/ \E i \in 1..2, ids \in IdBatches : MultiDone(i, ids)
    \/ \E i \in 1..2, ok \in BOOLEAN : StreamDone(i, ok)
    \/ Tick

SpecKeys == InitMusic /\ [][NextKeys]_vars

\* The same call with the skip operations; a title and a radio station.
NextSkip ==
    \/ \E q \in {QJazz, QLofiRadio} : PlayRequest(q)
    \/ \E i \in 1..2, id \in {<<>>, VideoA} : SearchDone(i, id)
    \/ \E i \in 1..2, ids \in IdBatches : MultiDone(i, ids)
    \/ \E i \in 1..2, ok \in BOOLEAN : StreamDone(i, ok)
    \/ PlayerIdle
    \/ SkipCommand
    \/ SkipTimer
    \/ ApiSkip

SpecSkip == InitMusic /\ [][NextSkip]_vars

\* The same call with player errors.
NextError ==
    \/ \E q \in Queries : PlayRequest(q)
    \/ \E i \in 1..2, id \in {<<>>, VideoA} : SearchDone(i, id)
    \/ \E i \in 1..2, ids \in IdBatches : MultiDone(i, ids)
    \/ \E i \in 1..2, ok \in BOOLEAN : StreamDone(i, ok)
    \/ PlayerIdle
    \/ PlayerError

SpecError == InitMusic /\ [][NextError]_vars

\* The same call draining its queue, track end after track end.
NextRadio ==
    \/ \E q \in Queries : PlayRequest(q)
    \/ \E i \in 1..2, id \in {<<>>, VideoA} : SearchDone(i, id)
    \/ \E i \in 1..2, ids \in IdBatches : MultiDone(i, ids)
    \/ \E i \in 1..2, ok \in BOOLEAN : StreamDone(i, ok)
    \/ TrackEnd

SpecRadio == InitMusic /\ [][NextRadio]_vars

\* A radio station whose queue is emptied while a track plays.
NextRefill ==
    \/ requests = 0 /\ PlayRequest(QLofiRadio)
    \/ \E i \in 1..2, ids \in IdBatches : MultiDone(i, ids)
    \/ \E i \in 1..2 : StreamDone(i, TRUE)
    \/ TrackEnd
    \/ ClearCommand
    \/ Tick

SpecRefill == InitMusic /\ [][NextRefill]_vars

\* A call in which yt-dlp resolves no stream but, at most, that of the track a
\* play request starts with; playNext is run by track ends and by POST /skip.
NextHalt ==
    \/ \E q \in {QJazz, QLofiRadio} : PlayRequest(q)
    \/ \E i \in 1..2, id \in {<<>>, VideoA} : SearchDone(i, id)
    \/ \E i \in 1..2, ids \in IdBatches : MultiDone(i, ids)
    \/ \E i \in 1..2 : /\ i <= Len(tasks)
                         /\ tasks[i].kind \in {"play", "radio"}
                         /\ StreamDone(i, TRUE)
    \/ \E i \in 1..2 : StreamDone(i, FALSE)
    \/ TrackEnd
    \/ ApiSkip

InitHalt ==
    /\ alwaysRespond = FALSE
    /\ wakeWords = <<Echo>>
    /\ InitGateState
    /\ InitSegState
    /\ InitMusicOf(TRUE)
    /\ InitCallState

SpecHalt == InitHalt /\ [][NextHalt]_vars

\* The same call with titles, a radio station, direct urls and a video url
\* as queries.
DirectUrls == {QStreamUrl, QHttpsUrl}
PlayQueries == {QJazz, QLofiRadio, WatchUrl(VideoB)} \cup DirectUrls

NextPlay ==
    \/ \E q \in PlayQueries : PlayRequest(q)
    \/ \E i \in 1..2, id \in {<<>>, VideoA} : SearchDone(i, id)
    \/ \E i \in 1..2, ids \in IdBatches : MultiDone(i, ids)
    \/ \E i \in 1..2, ok \in BOOLEAN : StreamDone(i, ok)
    \/ PlayerIdle

SpecPlay == InitMusic /\ [][NextPlay]_vars

\* The same call with speech played on its player.
NextTts ==
    \/ \E q \in Queries : PlayRequest(q)
    \/ \E i \in 1..2, id \in {<<>>, VideoA} : SearchDone(i, id)
    \/ \E i \in 1..2, ids \in IdBatches : MultiDone(i, ids)
    \/ \E i \in 1..2, ok \in BOOLEAN : StreamDone(i, ok)
    \/ SpeakPlays
    \/ TrackEnd

SpecTts == InitMusic /\ [][NextTts]_vars

\* Two calls dispatching texts to the agent, with resets in between.
NextSession ==
    \/ \E g \in Guilds, t \in GateTexts : SendToOpenClaw(g, t)
    \/ \E g \in Guilds : ResetSession(g)

SpecSession == InitGate /\ [][NextSession]_vars

\* Two calls joined and left, several commands joining at once.
NextJoin ==
    \/ \E g \in Guilds : JoinBegin(g)
    \/ \E g \in Guilds : JoinReady(g)
    \/ \E g \in Guilds : Leave(g)

SpecJoin == InitGate /\ [][NextJoin]_vars

\* Two calls with the revision of processBuffer whose gate tests the text.
NextReject ==
    \/ \E g \in Guilds : Join(g)
    \/ \E g \in Guilds, t \in GateTexts : UpdateBuffer(g, t)
    \/ \E g \in Guilds, id \in 1..(MaxAppends + 1) : TimerFireTested(g, id)
    \/ \E g \in Guilds, i \in 1..2, r \in Responses, ok \in BOOLEAN :
          AgentDone(g, i, r, ok)
    \/ \E g \in Guilds, i \in 1..2, a \in BOOLEAN, ok \in BOOLEAN :
          TtsDone(g, i, a, ok)

SpecReject == InitGate /\ [][NextReject]_vars

(***************************************************************************)
(* Properties of the transcription gate.                                   *)
(***************************************************************************)
HasState(g) == g \in DOMAIN transcriptionState
Processing(g) == HasState(g) /\ transcriptionState[g].processing
Buffer(g) == IF HasState(g) THEN transcriptionState[g].buffer ELSE <<>>
TimersOf(g) == {t \in timers : t[1] = g}
Dispatched(g) == SelectSeq(gated[g], LAMBDA e : e.pass)

RECURSIVE JoinSp(_)
JoinSp(texts) ==
    IF texts = <<>> THEN <<>>
    ELSE IF Len(texts) = 1 THEN texts[1]
    ELSE texts[1] \o <<" ">> \o JoinSp(Tail(texts))

\* The gate as the README and the specification describe it.
DocumentedGate(text, words) ==
    LET n == Normalized(text)
    IN  \E k \in 1..Len(words) :
           \/ Includes(n, words[k])
           \/ StartsWith(n, HeySp \o words[k])
           \/ StartsWith(n, OkaySp \o words[k])

\* C1: for every call, at most one processBuffer run is past the in-flight
\* guard (awaiting sendToOpenClaw or speak) at any time, and while one is, the
\* call's processing flag is set.
C1_OneDispatchInFlight ==
    \A g \in Guilds : Len(procs[g]) <= 1 /\ (Len(procs[g]) = 1 => Processing(g))

\* C1 witness: a dispatch is in flight while more text sits in the buffer and
\* the timer armed for that text has already fired (the guard turned it away).
C1_Witness ==
    \E g \in Guilds :
        /\ Len(procs[g]) = 1
        /\ Truthy(Buffer(g))
        /\ TimersOf(g) = {}

\* C2: text appended while a dispatch is in flight is processed by a debounce
\* cycle after the dispatch completes, also when nothing more is appended: so
\* whenever the call is idle and its buffer holds text that no processBuffer
\* run has looked at, a debounce timer is pending to look at it.
C2_MidDispatchTextProcessed ==
    \A g \in Guilds : (fresh[g] /\ ~Processing(g)) => TimersOf(g) # {}

\* C3 (state part): at most one debounce timer is pending per call, and it is
\* the one armed by the latest append; the buffer is the space-joined
\* concatenation of the texts appended since it was last emptied.
C3_Inv ==
    \A g \in Guilds :
        /\ Cardinality(TimersOf(g)) <= 1
        /\ HasState(g) => TimersOf(g) \subseteq {<<g, transcriptionState[g].silenceTimer>>}
        /\ Buffer(g) = JoinSp(pendingTexts[g])

\* C3 (step part): a step starts at most one dispatch; a dispatch carries the
\* concatenation of everything appended since the last one; and when the timer
\* of an idle call fires on text that passes the gate, the dispatch is made.
C3_Step ==
    \A g \in Guilds :
        /\ Len(Dispatched(g)') <= Len(Dispatched(g)) + 1
        /\ Len(Dispatched(g)') = Len(Dispatched(g)) + 1 =>
              /\ TimersOf(g) # {} /\ TimersOf(g)' = {}
              /\ Dispatched(g)'[Len(Dispatched(g)')].src = Trim(JoinSp(pendingTexts[g]))
        /\ ( /\ TimersOf(g) # {} /\ TimersOf(g)' = {}
             /\ ~Processing(g)
             /\ Len(Trim(Buffer(g))) >= 2
             /\ (alwaysRespond \/ DocumentedGate(Trim(Buffer(g)), wakeWords)) )
           => Len(Dispatched(g)') = Len(Dispatched(g)) + 1

\* C3: debounce idempotence. Text A and then text B appended before the timer
\* expires give one dispatch holding 'A B': the first timer is cancelled, one
\* timer is pending per call, and its expiry starts exactly one dispatch.
C3_DebounceIdempotence == []C3_Inv /\ [][C3_Step]_vars

\* C3 witness: two texts were appended to a call and a single dispatch carried both.
C3_Witness ==
    \E g \in Guilds :
        /\ appended[g] = 2
        /\ Len(gated[g]) = 1
        /\ gated[g][1].pass
        /\ gated[g][1].src = TxtEchoGo \o <<" ">> \o TxtHi

\* C4: with always-respond off a gated text is dispatched exactly when its
\* normalized form contains a wake word or starts with 'hey '+word or
\* 'okay '+word (so, with 'echo', 'play some jazz' is not); with always-respond
\* on every gated text is dispatched.
C4_WakeWordGate ==
    \A g \in Guilds : \A k \in 1..Len(gated[g]) :
        gated[g][k].pass <=> (alwaysRespond \/ DocumentedGate(gated[g][k].src, wakeWords))

\* C5: wake word 'echo', always-respond off: 'hello there' is not dispatched,
\* and 'hey echo what's up' is dispatched with the message 'what's up'.
C5_Scenario ==
    (~alwaysRespond /\ wakeWords = <<Echo>>) =>
        \A g \in Guilds : \A k \in 1..Len(gated[g]) :
            /\ gated[g][k].src = TxtHelloThere => ~gated[g][k].pass
            /\ gated[g][k].src = TxtHeyEchoWhatsUp =>
                  (gated[g][k].pass /\ gated[g][k].msg = TxtWhatsUp)

\* C6: every dispatch that sets the in-flight flag clears it again, whatever
\* the agent and speak() do: so the flag is never left set with no
\* processBuffer run alive to clear it.
C6_InFlightCleared ==
    \A g \in Guilds : Processing(g) => Len(procs[g]) > 0


(***************************************************************************)
(* Properties of the segmenter.                                            *)
(***************************************************************************)
Finals(u) == Len(SelectSeq(emitted, LAMBDA e : e.user = u /\ e.final))

\* C7: for every sequence of frames and speaking signals of one speaker, a
\* final utterance is emitted exactly for each run of speech frames that is
\* terminated by an end-of-speaking signal or by 10 consecutive non-speech
\* frames; nothing is emitted for silence alone.
C7_FinalIffTerminatedRun == \A u \in Users : Finals(u) = owed[u]


(***************************************************************************)
(* Properties of the music manager.                                        *)
(***************************************************************************)
\* C8: whatever is enqueued, dequeued, cleared or refilled by radio mode,
\* the queue of a call never holds more than MAX_QUEUE_SIZE entries, and an
\* addToQueue call on a queue at the maximum returns -1 and leaves the queue
\* as it was.
C8_QueueBounded ==
    /\ Len(queue) <= MAX_QUEUE_SIZE
    /\ (lastAdd.called /\ Len(lastAdd.before) >= MAX_QUEUE_SIZE)
          => (lastAdd.result = -1 /\ lastAdd.after = lastAdd.before)

\* an addToQueue call was made on a full queue and rejected
C8_Witness ==
    /\ lastAdd.called
    /\ Len(lastAdd.before) = MAX_QUEUE_SIZE
    /\ lastAdd.result = -1
    /\ Len(queue) = MAX_QUEUE_SIZE

\* C9: a getCachedStream(k) made after setCachedStream(k, v) returns v as
\* long as less than CACHE_TTL_MS has passed since the set, and a miss once
\* CACHE_TTL_MS has passed.
C9_CacheRoundTrip ==
    (lastGet.called /\ lastGet.put.present) =>
        IF lastGet.at < lastGet.put.at + CACHE_TTL_MS
        THEN lastGet.value = lastGet.put.value
        ELSE lastGet.value = Null

\* a key is read exactly CACHE_TTL_MS after it was set
C9_Witness ==
    /\ lastGet.called
    /\ lastGet.put.present
    /\ lastGet.at = lastGet.put.at + CACHE_TTL_MS
    /\ lastGet.value = Null

\* C10: after a stop, and until the next play request, the player is halted,
\* the queue is empty, the call has no radio descriptor, and no track is
\* started.
C10_StopHaltsAndClears ==
    stopped =>
        /\ player.status = "Idle" \/ player.stopping
        /\ queue = <<>>
        /\ Call \notin DOMAIN radioMode
        /\ ~startedSinceStop


\* C11: a skip made while a track is playing (and nothing else is under way)
\* dequeues exactly one entry and starts it; every resolution succeeding, no
\* second entry is ever dequeued, and once the skip has settled the next
\* track has been started, or, if the queue was empty, the player is Idle.
C11_SkipAdvancesOne ==
    skipped.active =>
        /\ skipped.taken <= 1
        /\ (tasks = <<>> /\ skipTimers = 0 /\ ~player.stopping) =>
              IF skipped.had > 0 /\ Call \notin DOMAIN radioMode
              THEN skipped.taken = 1 /\ skipped.started = 1
              ELSE skipped.had = 0 => (Call \in DOMAIN radioMode \/ player.status = "Idle")

\* C12: a track that errors is re-resolved and replayed at most once: between
\* two track starts by play or playNext the error handler replays at most
\* one time, a second error of the same track causing no further attempt.
C12_OneRetryPerTrack == recovery.replays <= 1

\* C13: in radio mode one drain of the queue below the low-water mark (one
\* Idle event of the player) triggers exactly one pre-fetch call of
\* searchYouTubeMultiple, never a second one.
C13_OneRefillPerDrain == refill.calls <= 1

\* C14: a play call made while a track is playing (nothing else under way)
\* never replaces or interrupts that track: until the player next goes Idle
\* it keeps playing the same resource, whatever the query (radio included).
C14_PlayWhileActiveQueues ==
    lastPlay.active => (player.status = "Playing" /\ player.resource = lastPlay.resource)

\* C15: play with a direct http(s) url of a non-platform source, called
\* while the player is Idle, starts exactly that url in the same step and
\* starts no search or resolver process (and touches neither queue nor cache).
C15_DirectUrlPlaysAtOnce ==
    [][\A q \in DirectUrls :
         (player.status = "Idle" /\ PlayRequest(q)) =>
             /\ player'.status = "Playing"
             /\ player'.resource = q
             /\ tasks' = tasks
             /\ queue' = queue
             /\ streamCache' = streamCache]_vars

C15_Witness ==
    /\ player.status = "Playing"
    /\ player.resource = QHttpsUrl
    /\ requests = 1
    /\ tasks = <<>>
    /\ idleListeners = 1

\* C16: speech played while a music track is playing does not lose the music:
\* once the speech has ended and what its end set off has settled, the player
\* is playing the same track again and the queue is as the speech found it.
C16_MusicResumesAfterTts ==
    (spoken.over /\ tasks = <<>>) =>
        /\ player.status = "Playing"
        /\ player.resource = spoken.music
        /\ queue = spoken.queue

\* C17: the session id of a dispatch depends on the call id alone: two
\* dispatches carry the same session id exactly when they are of the same
\* call, whatever the turn and whatever resets were made in between.
C17_SessionIdOfCallAlone ==
    \A i \in 1..Len(sent), j \in 1..Len(sent) :
        (sent[i].guild = sent[j].guild) <=> (sent[i].session = sent[j].session)

C17_Witness ==
    /\ Len(sent) = 3
    /\ sent[1].guild = "g1" /\ sent[2].guild = "g2" /\ sent[3].guild = "g1"
    /\ sent[3].message # sent[3].text
    /\ sent[1].session = sent[3].session

C19_OneSessionPerCall == \A g \in Guilds : made[g] <= 1

\* C20: when processBuffer rejects a buffer (no wake word, always-respond off)
\* the buffer is discarded: until more text arrives the buffer is empty and
\* the call is idle, and no text dispatched later contains the rejected text.
C20_RejectedBufferDiscarded ==
    \A g \in Guilds :
        LET G == gated[g]
        IN  /\ (Len(G) > 0 /\ ~G[Len(G)].pass /\ ~fresh[g] /\ HasState(g)) =>
                   (Buffer(g) = <<>> /\ ~Processing(g))
            /\ \A i \in 1..Len(G), j \in 1..Len(G) :
                   (i < j /\ ~G[i].pass /\ G[j].pass) => ~Includes(G[j].src, G[i].src)

(***************************************************************************)
(* C21: each run of a speaker's speech frames is handed to the recognizer  *)
(* exactly once, as one finalized utterance: no speech frame is part of    *)
(* the audio of two processVoiceAudio runs that reach the recognizer, and  *)
(* no speech frame's text is appended to the transcript buffer twice.      *)
(***************************************************************************)
Disjoint(log) ==
    \A i, j \in 1..Len(log) :
        i # j => \A a \in 1..Len(log[i].frames), b \in 1..Len(log[j].frames) :
                    log[i].frames[a] # log[j].frames[b]

C21_SpeechConsumedOnce == Disjoint(transcribed) /\ Disjoint(appendLog)

(***************************************************************************)
(* C22: for one speaker of a call, the recognized texts are appended to    *)
(* the transcript buffer in the order in which the speaker's utterances    *)
(* were finalized, whatever the conversion and recognition latencies of    *)
(* the processVoiceAudio runs under way.                                   *)
(***************************************************************************)
C22_AppendedInFinalizedOrder ==
    \A i, j \in 1..Len(appendLog) :
        (i < j /\ appendLog[i].user = appendLog[j].user)
            => appendLog[i].id < appendLog[j].id

(***************************************************************************)
(* C23: each player Idle event dequeues and starts exactly one track, no   *)
(* matter how many tracks play() and playNext() have started on the player *)
(* before: the listeners of one Idle event never take two queue entries.   *)
(***************************************************************************)
C23_OneDequeuePerIdle == refill.taken <= 1

(***************************************************************************)
(* C24: at most one external resolution (search, stream-URL resolution)    *)
(* is in flight per cache key at any time: no two suspended runs wait for  *)
(* a yt-dlp process started for the same key.                              *)
(***************************************************************************)
\* the cache key a suspended run's yt-dlp process will fill
TaskKey(t) ==
    CASE t.pc = "search" -> SearchKey(t.query)
      [] t.pc = "multi" -> MultiKey(t.query, RadioCount)
      [] t.pc = "stream" -> t.url

C24_OneResolutionPerKey ==
    \A i, j \in 1..Len(tasks) : i # j => TaskKey(tasks[i]) # TaskKey(tasks[j])

Refills(ts) == Cardinality({k \in 1..Len(ts) : ts[k].kind = "refill"})

C26_Attempt ==
    (queue = <<>> /\ Call \in DOMAIN radioMode /\ idleListeners > 0 /\ TrackEnd)
        => (Refills(tasks') > Refills(tasks) \/ refill'.got > 0)

C26_Outcome ==
    \A i \in 1..2, ids \in IdBatches :
        (i <= Len(tasks) /\ tasks[i].kind = "refill" /\ MultiDone(i, ids))
            => IF ids = <<>>
               THEN player' = player /\ queue' = queue /\ tasks' = RemoveAt(tasks, i)
               ELSE \/ player'.status = "Playing"
                    \/ \E k \in 1..Len(tasks') : tasks'[k].kind = "playNext"

C27_PlayNextTerminates == ~refill.loop

(* C28: the stream a playback-error listener replays is newly resolved by
   yt-dlp; it is never the cached stream URL of the stream that has just
   failed. *)
C28_FreshReResolution == recovery.replays > 0 => ~recovery.reused

(* C29: an addToQueue made by play() or by a radio refill on a full queue is
   answered to its caller with an explicit rejection; the track is never
   dropped without one. *)
C29_FullQueueRejectsAloud ==
    (lastAdd.called /\ lastAdd.result = -1) => lastAdd.answer = "rejected"

(* C30: the transcript buffer, the in-flight flag and the armed debounce timer
   of a call go when its session is destroyed; while the call has no session
   none of its timers expires and no dispatch to the agent is started for
   it. *)
C30_Destroyed(g) ==
    (g \in connections /\ g \notin connections')
        => (TimersOf(g)' = {} /\ ~HasState(g)')

C30_Quiet(g) ==
    g \notin connections
        => (TimersOf(g) \subseteq timers' /\ Len(procs'[g]) <= Len(procs[g]))

C30_StateDiesWithSession ==
    [][\A g \in Guilds : C30_Destroyed(g) /\ C30_Quiet(g)]_vars

\* the speaker state of v, with a mark for "none"
SpeakerOf(streams, v) ==
    IF v \in DOMAIN streams THEN streams[v]
    ELSE [isSpeaking |-> FALSE, speechChunks |-> <<>>, silenceCount |-> -1]

SetOf(seq) == {seq[i] : i \in 1..Len(seq)}

(* C31: users are tracked independently.  A step changes the speaker state of
   one user at most, a frame carried for a user changes no other user's
   speaker state, and an utterance emitted for a user is made of frames that
   were received from that user. *)
C31_Step ==
    /\ \A v, w \in Users :
          (v # w /\ SpeakerOf(userStreams', v) # SpeakerOf(userStreams, v))
             => SpeakerOf(userStreams', w) = SpeakerOf(userStreams, w)
    /\ \A v, w \in Users :
          (v # w /\ heard'[v] # heard[v])
             => SpeakerOf(userStreams', w) = SpeakerOf(userStreams, w)
    /\ Len(emitted') > Len(emitted)
          => SetOf(emitted'[Len(emitted')].frames)
                \subseteq heard'[emitted'[Len(emitted')].user].got

C31_UsersIndependent == [][C31_Step]_vars

\* an utterance has been emitted for one user while another user has a
\* speaker state and has been sent speech of their own
C31_Witness ==
    /\ Len(emitted) > 0
    /\ \E v \in DOMAIN userStreams :
          /\ v # emitted[Len(emitted)].user
          /\ heard[v].got # {}

LastEmitted(log) == log[Len(log)]

(* C32: whenever an utterance is finalized, by the end-of-speaking signal or
   by the silence threshold, the utterance emitted is the speech frames taken
   since the previous finalization, in arrival order, and right after it the
   speaker's speech accumulator is empty and its silence counter is zero. *)
C32_Step ==
    (Len(emitted') > Len(emitted) /\ LastEmitted(emitted').final)
       => LET e == LastEmitted(emitted')
          IN  /\ e.frames # <<>>
              /\ e.frames = heard[e.user].run
              /\ e.user \in DOMAIN userStreams'
              /\ userStreams'[e.user].speechChunks = <<>>
              /\ userStreams'[e.user].silenceCount = 0

C32_FinalizationEmitsAndResets == [][C32_Step]_vars

\* a final utterance of two frames has just been emitted and its speaker's
\* accumulator is empty
C32_Witness ==
    /\ Len(emitted) > 0
    /\ LastEmitted(emitted).final
    /\ Len(LastEmitted(emitted).frames) = 2
    /\ LastEmitted(emitted).user \in DOMAIN userStreams
    /\ userStreams[LastEmitted(emitted).user].speechChunks = <<>>

(* C33: once a speaking-start signal has been delivered for a user, that user
   has a speaker state and their audio stream is subscribed, so the frames
   delivered for them afterwards reach the 'data' handler and its buffer. *)
C33_StartSubscribes ==
    \A u \in started \ {Self} : u \in DOMAIN userStreams /\ u \in subscribed

(* C34: a frame that fails to decode is dropped alone.  The step that carries
   it leaves the speaker's state, the subscription and the utterances as they
   were, and the frames that follow are still handled. *)
C34_Step ==
    \A u \in Users :
       (u \in subscribed /\ Frame(u, "bad"))
          => /\ userStreams' = userStreams
             /\ subscribed' = subscribed
             /\ emitted' = emitted
             /\ voiceCalls' = voiceCalls

C34_DecodeErrorDropsFrame == [][C34_Step]_vars

\* a speech frame was taken after a decode error, and it is in the accumulator
\* together with one taken before the error
C34_Witness ==
    \E u \in subscribed :
       /\ heard[u].bad = 2
       /\ Len(userStreams[u].speechChunks) = 2

\* the map with expiry that the cache stands for: the last put of each key,
\* readable while now is before its expiry
AbstractGet(k) ==
    IF k \in DOMAIN lastPut /\ now < lastPut[k].at + CACHE_TTL_MS
    THEN lastPut[k].value ELSE Null

(* C35: over all puts, gets, sweeps and clock advances the stream cache
   behaves as a map with expiry.  A get of any key returns the value of the
   key's last put exactly while now is before put time + ttl and a miss
   otherwise; every stored entry is the last put of its key; a miss leaves no
   entry behind; and a sweep, like a miss, takes away expired entries only, so
   it changes the answer of no later get. *)
C35_CacheRefinesMap ==
    /\ \A k \in DOMAIN lastPut \cup DOMAIN streamCache :
          GetCachedStream(streamCache, k, now).value = AbstractGet(k)
    /\ \A k \in DOMAIN streamCache :
          /\ k \in DOMAIN lastPut
          /\ streamCache[k] = [streamUrl |-> lastPut[k].value,
                               expires |-> lastPut[k].at + CACHE_TTL_MS]
    /\ (lastGet.called /\ lastGet.value = Null /\ lastGet.key \in DOMAIN streamCache)
          => lastPut[lastGet.key].at >= lastGet.at

\* an entry that a get has hit was swept after it expired (no get has been
\* made since the hit)
C35_Witness ==
    /\ lastGet.called
    /\ lastGet.value # Null
    /\ lastGet.key \notin DOMAIN streamCache
    /\ AbstractGet(lastGet.key) = Null

(* C36: after every speak the synthesized-speech cache holds at most 100
   entries, and an insertion that takes it over the cap evicts the entry
   inserted longest ago; the entry just inserted stays. *)
C36_Step ==
    /\ Len(ttsCache') <= TtsCacheCap
    /\ ttsCache' # ttsCache
          => /\ ~InCache(ttsCache, LastEmitted(ttsCache'))
             /\ ttsCache' = IF Len(ttsCache) < TtsCacheCap
                             THEN Append(ttsCache, LastEmitted(ttsCache'))
                             ELSE Append(Tail(ttsCache), LastEmitted(ttsCache'))
    /\ \A g \in Guilds, i \in 1..2 :
          (i <= Len(procs[g]) /\ TtsDone(g, i, TRUE, TRUE))
             => InCache(ttsCache', <<g, procs[g][i].reply>>)

C36_CacheCappedOldestOut == [][C36_Step]_vars

\* the cache is full, its oldest entry "1" has been evicted and the reply
\* that took its place is the newest entry
C36_Witness ==
    /\ Len(ttsCache) = TtsCacheCap
    /\ ~InCache(ttsCache, <<"g1", ToString(1)>>)
    /\ LastEmitted(ttsCache)[2] \in {"r1", "r2"}

SongsOf(urls, title) == [k \in 1..Len(urls) |-> Song(urls[k], title, "user")]
Room(q) == IF Len(q) >= MAX_QUEUE_SIZE THEN 0 ELSE MAX_QUEUE_SIZE - Len(q)
FirstN(seq, n) == SubSeq(seq, 1, IF n < Len(seq) THEN n ELSE Len(seq))

\* play(query) gets the batch urls for a radio query in this step: from yt-dlp
\* (the search closes) or from the cache (within the request)
EntersRadio(query, urls) ==
    \/ \E i \in 1..2, ids \in IdBatches :
          /\ i <= Len(tasks)
          /\ tasks[i].kind = "radio"
          /\ tasks[i].pc = "multi"
          /\ tasks[i].query = query
          /\ WatchUrls(ids) = urls
          /\ MultiDone(i, ids)
    \/ /\ IsRadioQuery(query)
       /\ ~IsUrl(query)
       /\ CachedValue(Machine, MultiKey(query, RadioCount)) # Null
       /\ JsonParse(CachedValue(Machine, MultiKey(query, RadioCount))) = urls
       /\ PlayRequest(query)

RadioBatches == {WatchUrls(ids) : ids \in IdBatches}

(* C37: entering radio mode with a query that resolves to N tracks puts all N
   into the queue and records the radio descriptor of the call; a search
   without result records no descriptor and leaves the queue as it was. *)
C37_Step ==
    \A q \in Queries, urls \in RadioBatches :
       EntersRadio(q, urls)
          => IF urls = <<>>
             THEN queue' = queue /\ radioMode' = radioMode
             ELSE /\ queue' = queue \o SongsOf(urls, q)
                  /\ Call \in DOMAIN radioMode'
                  /\ radioMode'[Call].query = q

C37_RadioEntryQueuesAll == [][C37_Step]_vars

(* C37 as the code has it: the N tracks are queued in order as far as the
   queue has room (all of them when it has room for N), and the descriptor is
   recorded whenever the search found a track. *)
C37_StepRoom ==
    \A q \in Queries, urls \in RadioBatches :
       EntersRadio(q, urls)
          => IF urls = <<>>
             THEN queue' = queue /\ radioMode' = radioMode
             ELSE /\ queue' = queue \o FirstN(SongsOf(urls, q), Room(queue))
                  /\ Call \in DOMAIN radioMode'
                  /\ radioMode'[Call].query = q

C37_RadioEntryQueuesWhatFits == [][C37_StepRoom]_vars

\* radio mode has been entered and the whole batch is in the queue
C37_Witness ==
    /\ Call \in DOMAIN radioMode
    /\ radioMode[Call].query = QLofiRadio
    /\ queue = SongsOf(WatchUrls(<<VideoA, VideoB>>), QLofiRadio)

\* what the player holds when the entry with this url is played
ResourceOf(url) == IF IsYouTube(url) THEN StreamUrlOf(url) ELSE url

Queued(q, resource) == \E k \in 1..Len(q) : ResourceOf(q[k].url) = resource

\* a play() call that found the player not Playing gets its stream url and
\* starts its track in this step
PlayStarts(i) ==
    /\ i <= Len(tasks)
    /\ tasks[i].kind = "play"
    /\ tasks[i].pc = "stream"
    /\ StreamDone(i, TRUE)

(* C38: with several play() calls under way for the call, the track of every
   request that was resolved is the playing track or an entry of the queue:
   when one request starts its track, a track that another request had
   playing is still playing or has been put into the queue. *)
C38_Step ==
    \A i \in 1..2 :
       (PlayStarts(i) /\ player.status = "Playing" /\ ~player.stopping)
          => \/ player'.resource = player.resource
             \/ Queued(queue', player.resource)

C38_NoTrackLostToOverwrite == [][C38_Step]_vars

\* the step runs updateBuffer for the call / starts a dispatch for it
Appends == appended'[Call] # appended[Call]
Dispatches == Len(gated'[Call]) > Len(gated[Call]) /\ gated'[Call][Len(gated'[Call])].pass

(* C39: once listening has been turned off for the call, and for as long as
   it stays off, no text is appended to the call's transcript buffer, not
   even that of an utterance whose conversion or recognition was under way. *)
C39_NoAppendWhileOff == [][(~isListening /\ ~isListening') => ~Appends]_vars

(* C39, second half: while listening is off no dispatch to the agent is
   started for the call, not even for text that was in the buffer when
   listening was turned off. *)
C39_NoDispatchWhileOff == [][(~isListening /\ ~isListening') => ~Dispatches]_vars

(* C39: after listening has been turned off for the call, no recognized text
   is appended to its transcript buffer and no dispatch is started for it,
   whatever was being converted, recognized or buffered at that moment. *)
C39_StopListeningStopsAll ==
    [][(~isListening /\ ~isListening') => (~Appends /\ ~Dispatches)]_vars

\* the radio branch of play() gets the stream url of the batch's first track
\* and starts it in this step
RadioStarts(i) ==
    /\ i <= Len(tasks)
    /\ tasks[i].kind = "radio"
    /\ tasks[i].pc = "stream"
    /\ StreamDone(i, TRUE)

\* the queue holds url as an entry that a radio request of play() has put there
LeftInQueue(q, url) ==
    \E k \in 1..Len(q) :
        q[k].url = url /\ q[k].requestedBy = "user" /\ IsRadioQuery(q[k].title)

(* C40: at radio start the first track of the batch is started once: when
   play() starts it, the queue does not hold it as an entry of the batch as
   well, so advancing the queue does not play it a second time. *)
C40_Step == \A i \in 1..2 : RadioStarts(i) => ~LeftInQueue(queue', tasks[i].url)

C40_FirstTrackNotLeftQueued == [][C40_Step]_vars

\* one radio request, one track end: the batch's first track is playing again
C40_Replayed ==
    /\ player.status = "Playing"
    /\ player.resource = StreamUrlOf(WatchUrl(VideoA))
    /\ refill.ends = 1
    /\ requests = 1
    /\ idleListeners = 2

====
